---- MODULE Spec2Model ----
(***************************************************************************)
(* Document ingestion pipeline: file splitter (convertor/file_splitter.py), *)
(* orchestrator process_file (convertor/core.py) and the upload / worker    *)
(* handlers (app.py).                                                       *)
(***************************************************************************)
EXTENDS Integers, Sequences, FiniteSets, TLC

VARIABLES
    sp_call, sp_ret,    \* a call of a function of file_splitter.py and its result
    pf_call, pf_ret,    \* a call of a function of convertor/core.py or
                        \* convertor/email_parser.py and its result
    docs,               \* the UserDocument table: docs[id] is the committed row
    tasks,              \* the executor's work items, in submission order
    up,                 \* the upload handler: its position and local variables
    resp,               \* uploaded_files, the entries of the upload response
    split_failed,       \* ids of the documents whose split_file call raised
    reqs,               \* the delete_document requests, in order of arrival
    disk                \* the split folders in the upload folder: for each,
                        \* the id of the document it was made for and the
                        \* number of part files in it

splitVars == <<sp_call, sp_ret>>

procVars == <<pf_call, pf_ret>>

appVars == <<docs, tasks, up, resp, split_failed, reqs, disk>>

vars == <<sp_call, sp_ret, pf_call, pf_ret, docs, tasks, up, resp, split_failed,
          reqs, disk>>

----------------------------------------------------------------------------
(* Generic helpers *)

Min(a, b) == IF a < b THEN a ELSE b

RECURSIVE Concat(_)
Concat(ss) == IF ss = <<>> THEN <<>> ELSE Head(ss) \o Concat(Tail(ss))

RECURSIVE SumSeq(_)
SumSeq(ns) == IF ns = <<>> THEN 0 ELSE Head(ns) + SumSeq(Tail(ns))

SeqsUpTo(S, n) == UNION {[1..k -> S] : k \in 0..n}

----------------------------------------------------------------------------
(* Constants of convertor/file_splitter.py *)

MB == 1024 * 1024

DEFAULT_CHUNK_SIZE == 5

DEFAULT_TEXT_CHUNK_SIZE == 50000

MAX_FILE_SIZE_MB == 10

READ_BUFFER_MB == 8

DEFAULT_BINARY_CHUNK_MB == 5

TextExtensions == {".txt", ".html", ".htm", ".json", ".csv"}

----------------------------------------------------------------------------
(* Bounds of the splitter model *)

MaxPages == 12

MaxPdfChunk == 5

MaxTextLen == 3

MaxTextChunk == 2

MaxChunkMB == 9

----------------------------------------------------------------------------
(* split_pdf_file: reader.pages is the sequence of the PDF's pages; page k *)
(* of the original is identified by the number k.                          *)

num_chunks_floor(total, chunk_size) == total \div chunk_size

\* num_chunks = (total + chunk_size - 1) // chunk_size
num_chunks_of(total, chunk_size) == (total + chunk_size - 1) \div chunk_size

part_name(i, n) == [part |-> i, of |-> n]

split_pdf_file(pages, chunk_size) ==
    LET total_pages == Len(pages)
        num_chunks == num_chunks_of(total_pages, chunk_size)
        start_page(i) == i * chunk_size
        end_page(i) == Min((i + 1) * chunk_size, total_pages)
        part(i) == [name |-> part_name(i + 1, num_chunks),
                    pages |-> [k \in 1..(end_page(i) - start_page(i))
                                   |-> pages[start_page(i) + k]]]
    IN  [raised |-> FALSE,
         part_files |-> [j \in 1..num_chunks |-> part(j - 1)],
         num_chunks |-> num_chunks]

----------------------------------------------------------------------------
(* split_text_file, on the bytes of the file.  A byte is an ASCII letter,  *)
(* a carriage return, a line feed, or a byte that is not valid UTF-8.      *)

Bytes == {"a", "CR", "LF", "BAD"}

\* open(file_path, 'r', encoding='utf-8', errors='ignore'): undecodable
\* bytes are dropped
decode_utf8_ignore(bytes) == SelectSeq(bytes, LAMBDA b : b # "BAD")

\* text mode with newline=None: "\r\n" and "\r" are read as "\n"
RECURSIVE universal_newlines(_)
universal_newlines(s) ==
    IF s = <<>> THEN <<>>
    ELSE IF Head(s) = "CR"
         THEN IF Len(s) > 1 /\ s[2] = "LF"
              THEN <<"LF">> \o universal_newlines(SubSeq(s, 3, Len(s)))
              ELSE <<"LF">> \o universal_newlines(Tail(s))
         ELSE <<Head(s)>> \o universal_newlines(Tail(s))

read_text(bytes) == universal_newlines(decode_utf8_ignore(bytes))

\* open(part_path, 'w', encoding='utf-8'): every character read is written
\* as its UTF-8 bytes, "\n" as os.linesep
write_text(chars) == chars

\* the loop "chunk_content = f.read(chunk_size); if not chunk_content: break"
RECURSIVE text_read_loop(_, _, _, _)
text_read_loop(text, pos, chunk_size, acc) ==
    LET chunk_content == SubSeq(text, pos + 1, Min(pos + chunk_size, Len(text)))
    IN  IF chunk_content = <<>> THEN acc
        ELSE text_read_loop(text, pos + Len(chunk_content), chunk_size,
                            Append(acc, chunk_content))

\* estimated_num_chunks = (file_size + chunk_size*2 - 1) // (chunk_size*2)
estimated_num_chunks_of(file_size, chunk_size) ==
    (file_size + (chunk_size * 2) - 1) \div (chunk_size * 2)

\* os.rename of the parts, in order, over the split folder's content
RECURSIVE rename_parts(_, _, _, _)
rename_parts(folder, i, est, n) ==
    IF i > n THEN folder
    ELSE LET old == part_name(i, est)
             new == part_name(i, n)
             moved == [x \in (DOMAIN folder \ {old}) \cup {new} |->
                          IF x = new THEN folder[old] ELSE folder[x]]
         IN  rename_parts(moved, i + 1, est, n)

split_text_file(bytes, chunk_size) ==
    LET file_size == Len(bytes)
        est == estimated_num_chunks_of(file_size, chunk_size)
        chunks == text_read_loop(read_text(bytes), 0, chunk_size, <<>>)
        chunk_index == Len(chunks)
        written == [x \in {part_name(i, est) : i \in 1..chunk_index} |->
                       write_text(chunks[x.part])]
        renamed == chunk_index # est
        folder == IF renamed THEN rename_parts(written, 1, est, chunk_index)
                  ELSE written
        part_files == [i \in 1..chunk_index |->
                          part_name(i, IF renamed THEN chunk_index ELSE est)]
    IN  [raised |-> FALSE, part_files |-> part_files,
         num_chunks |-> chunk_index, folder |-> folder]

\* the same loop on a text of n characters: read k returns the characters
\* (k-1)*chunk_size+1 .. min(k*chunk_size, n) and the loop ends at the first
\* empty read; the lengths of the parts
text_chunk_lens(n, chunk_size) ==
    [k \in 1..((n + chunk_size - 1) \div chunk_size) |->
        Min(chunk_size, n - (k - 1) * chunk_size)]

----------------------------------------------------------------------------
(* split_binary_file.  The file is the byte range 0..file_size-1; a read   *)
(* returns the segment <<offset, length>> of the file it has consumed.     *)

\* buffer_size = min(chunk_size_bytes, 8 * 1024 * 1024)
buffer_size_of(chunk_size_bytes) == Min(chunk_size_bytes, READ_BUFFER_MB * MB)

\* f.read(read_size) at offset pos of a file of file_size bytes
file_read(file_size, pos, read_size) == Min(read_size, file_size - pos)

\* while bytes_remaining > 0: read, stop at end of file, write
RECURSIVE binary_read_loop(_, _, _, _, _)
binary_read_loop(file_size, buffer_size, st, bytes_remaining, segs) ==
    IF bytes_remaining > 0
    THEN LET read_size == Min(buffer_size, bytes_remaining)
             got == file_read(file_size, st.pos, read_size)
             asked == Append(st.reads, read_size)
         IN  IF got = 0
             THEN [pos |-> st.pos, reads |-> asked, segs |-> segs]
             ELSE binary_read_loop(file_size, buffer_size,
                                   [pos |-> st.pos + got, reads |-> asked],
                                   bytes_remaining - got,
                                   Append(segs, <<st.pos, got>>))
    ELSE [pos |-> st.pos, reads |-> st.reads, segs |-> segs]

\* bytes_remaining = min(chunk_size_bytes, file_size - i * chunk_size_bytes)
chunk_bytes_of(file_size, chunk_size_bytes, i) ==
    Min(chunk_size_bytes, file_size - (i * chunk_size_bytes))

RECURSIVE binary_chunk_loop(_, _, _, _, _, _)
binary_chunk_loop(file_size, chunk_size_bytes, num_chunks, i, st, parts) ==
    IF i >= num_chunks
    THEN [part_files |-> parts, reads |-> st.reads]
    ELSE LET r == binary_read_loop(file_size, buffer_size_of(chunk_size_bytes), st,
                                   chunk_bytes_of(file_size, chunk_size_bytes, i), <<>>)
         IN  binary_chunk_loop(file_size, chunk_size_bytes, num_chunks, i + 1,
                               [pos |-> r.pos, reads |-> r.reads],
                               Append(parts, [name |-> part_name(i + 1, num_chunks),
                                              segs |-> r.segs]))

split_binary_file(file_size, chunk_size_mb) ==
    LET chunk_size_bytes == chunk_size_mb * 1024 * 1024
        num_chunks == num_chunks_of(file_size, chunk_size_bytes)
        r == binary_chunk_loop(file_size, chunk_size_bytes, num_chunks, 0,
                               [pos |-> 0, reads |-> <<>>], <<>>)
    IN  [raised |-> FALSE, part_files |-> r.part_files,
         num_chunks |-> num_chunks, reads |-> r.reads]

\* split_text_file on a file of file_size bytes that decodes to nchars
\* characters: the names of the parts and the count it returns
split_text_count_estimate(file_size, nchars, chunk_size) ==
    LET est == estimated_num_chunks_of(file_size, chunk_size)
        lens == text_chunk_lens(nchars, chunk_size)
    IN  [raised |-> FALSE,
         part_files |-> [i \in 1..Len(lens) |->
                            [name |-> part_name(i, Len(lens)), chars |-> lens[i]]],
         num_chunks |-> est]

split_text_count(file_size, nchars, chunk_size) ==
    LET est == estimated_num_chunks_of(file_size, chunk_size)
        lens == text_chunk_lens(nchars, chunk_size)
        chunk_index == Len(lens)
    IN  [raised |-> FALSE,
         part_files |-> [i \in 1..chunk_index |->
                            [name |-> part_name(i, chunk_index), chars |-> lens[i]]],
         num_chunks |-> chunk_index]

----------------------------------------------------------------------------
(* should_split_file and split_file.  A file is its extension (lower case), *)
(* its size in bytes, whether PyPDF2 can read it, its page count, and the   *)
(* number of characters its bytes decode to.                                *)

\* file_size_mb > limit_mb / den, with file_size_mb = st_size / (1024 * 1024)
size_mb_over(size, limit_mb, den) == size * den > limit_mb * MB

should_split_file(f) ==
    IF size_mb_over(f.size, MAX_FILE_SIZE_MB, 1)
    THEN [split |-> TRUE, reason |-> "size"]
    ELSE IF f.ext = ".pdf" /\ f.readable /\ f.pages > DEFAULT_CHUNK_SIZE
    THEN [split |-> TRUE, reason |-> "pages"]
    ELSE IF f.ext = ".pdf" /\ ~f.readable /\ size_mb_over(f.size, MAX_FILE_SIZE_MB, 2)
    THEN [split |-> TRUE, reason |-> "unreadable"]
    ELSE IF /\ f.ext \in TextExtensions
            /\ size_mb_over(f.size, MAX_FILE_SIZE_MB, 2)
            /\ Min(f.nchars, 1000) > 0          \* len(sample) > 0
            /\ f.size > DEFAULT_TEXT_CHUNK_SIZE  \* estimated_chars
    THEN [split |-> TRUE, reason |-> "text"]
    ELSE [split |-> FALSE, reason |-> "none"]

NoSplit ==
    [raised |-> FALSE, is_none |-> TRUE, split_folder |-> FALSE,
     part_files |-> <<>>, num_chunks |-> 0]

split_file(f) ==
    IF ~should_split_file(f).split THEN NoSplit
    ELSE \* create_split_folder has made the folder
         IF f.ext = ".pdf"
         THEN IF f.readable
              THEN LET r == split_pdf_file([k \in 1..f.pages |-> k], DEFAULT_CHUNK_SIZE)
                   IN  [raised |-> FALSE, is_none |-> FALSE, split_folder |-> TRUE,
                        part_files |-> r.part_files, num_chunks |-> r.num_chunks]
              ELSE [raised |-> TRUE, is_none |-> FALSE, split_folder |-> TRUE,
                    part_files |-> <<>>, num_chunks |-> 0]
         ELSE IF f.ext \in TextExtensions
         THEN LET r == split_text_count(f.size, f.nchars, DEFAULT_TEXT_CHUNK_SIZE)
              IN  [raised |-> FALSE, is_none |-> FALSE, split_folder |-> TRUE,
                   part_files |-> r.part_files, num_chunks |-> r.num_chunks]
         ELSE LET r == split_binary_file(f.size, DEFAULT_BINARY_CHUNK_MB)
              IN  [raised |-> FALSE, is_none |-> FALSE, split_folder |-> TRUE,
                   part_files |-> r.part_files, num_chunks |-> r.num_chunks]

----------------------------------------------------------------------------
(* The splitter's functions applied to bounded inputs *)

FileSizes == {0, 1, DEFAULT_TEXT_CHUNK_SIZE, DEFAULT_TEXT_CHUNK_SIZE + 1,
              5 * MB, 5 * MB + 1, 10 * MB, 10 * MB + 1}

BinarySizes == {0, 1, MB, MB + 1, 5 * MB, 8 * MB + 1, 9 * MB, 10 * MB + 1,
                20 * MB + 3}

PageCounts == {0, 1, 5, 6, 12}

Files ==
    {[ext |-> ".pdf", size |-> s, readable |-> r, pages |-> IF r THEN p ELSE 0,
      nchars |-> 0] : s \in FileSizes \ {0}, r \in BOOLEAN, p \in PageCounts}
    \cup
    {[ext |-> e, size |-> sn[1], readable |-> FALSE, pages |-> 0, nchars |-> sn[2]]
        : e \in {".txt", ".csv"},
          sn \in {x \in FileSizes \X FileSizes : x[2] \in {0, x[1]}}}
    \cup
    {[ext |-> e, size |-> s, readable |-> FALSE, pages |-> 0, nchars |-> 0]
        : e \in {".docx", ".png"}, s \in FileSizes}

SplitCalls ==
    {[fn |-> "split_pdf_file", pages |-> [k \in 1..p |-> k], chunk_size |-> c]
        : p \in 0..MaxPages, c \in 1..MaxPdfChunk}
    \cup
    {[fn |-> "split_text_file", bytes |-> b, chunk_size |-> c]
        : b \in SeqsUpTo(Bytes, MaxTextLen), c \in 1..MaxTextChunk}
    \cup
    {[fn |-> "split_binary_file", file_size |-> s, chunk_size_mb |-> c]
        : s \in BinarySizes, c \in 1..MaxChunkMB}
    \cup
    {[fn |-> fn, file |-> f] : fn \in {"should_split_file", "split_file"}, f \in Files}

NotCalled == [done |-> FALSE]

IdleCall == [fn |-> "none"]

NoFile == [ext |-> "", size |-> 0, readable |-> FALSE, pages |-> 0, nchars |-> 0]

\* the upload handler between two files
UpIdle ==
    [pc |-> "idle", n |-> 0, file |-> NoFile, doc_id |-> 0, parts |-> <<>>,
     part_ids |-> <<>>, num_chunks |-> 0]

\* no document, no work item, no upload under way
AppIdle ==
    /\ docs = <<>> /\ tasks = <<>> /\ up = UpIdle /\ resp = <<>>
    /\ split_failed = {}
    /\ reqs = <<>>
    /\ disk = {}

InitSplit ==
    /\ sp_call \in SplitCalls
    /\ sp_ret = NotCalled
    /\ pf_call = IdleCall /\ pf_ret = NotCalled
    /\ AppIdle

Call_split_pdf_file ==
    /\ sp_call.fn = "split_pdf_file" /\ ~sp_ret.done
    /\ sp_ret' = [done |-> TRUE, r |-> split_pdf_file(sp_call.pages, sp_call.chunk_size)]
    /\ UNCHANGED <<sp_call, procVars, appVars>>

Call_split_text_file ==
    /\ sp_call.fn = "split_text_file" /\ ~sp_ret.done
    /\ sp_ret' = [done |-> TRUE, r |-> split_text_file(sp_call.bytes, sp_call.chunk_size)]
    /\ UNCHANGED <<sp_call, procVars, appVars>>

Call_split_binary_file ==
    /\ sp_call.fn = "split_binary_file" /\ ~sp_ret.done
    /\ sp_ret' = [done |-> TRUE,
                  r |-> split_binary_file(sp_call.file_size, sp_call.chunk_size_mb)]
    /\ UNCHANGED <<sp_call, procVars, appVars>>

Call_should_split_file ==
    /\ sp_call.fn = "should_split_file" /\ ~sp_ret.done
    /\ sp_ret' = [done |-> TRUE, r |-> should_split_file(sp_call.file)]
    /\ UNCHANGED <<sp_call, procVars, appVars>>

Call_split_file ==
    /\ sp_call.fn = "split_file" /\ ~sp_ret.done
    /\ sp_ret' = [done |-> TRUE, r |-> split_file(sp_call.file)]
    /\ UNCHANGED <<sp_call, procVars, appVars>>

NextSplit ==
    \/ Call_split_pdf_file
    \/ Call_split_text_file
    \/ Call_split_binary_file
    \/ Call_should_split_file
    \/ Call_split_file

SpecSplit == InitSplit /\ [][NextSplit]_vars

Returned(fn) == sp_call.fn = fn /\ sp_ret.done

----------------------------------------------------------------------------
(* Properties of the splitter *)

IsCeilDiv(n, total, size) == (n - 1) * size < total /\ total <= n * size

\* C5: for a PDF of P >= 1 pages and chunk size c >= 1, split_pdf_file gives
\* exactly ceil(P/c) parts, part i holds the pages (i-1)*c+1 .. min(i*c, P)
\* in order, and is named part i of N.
C5_PdfPartsCoverPagesInOrder ==
    (Returned("split_pdf_file") /\ Len(sp_call.pages) >= 1) =>
        LET P == Len(sp_call.pages)
            c == sp_call.chunk_size
            parts == sp_ret.r.part_files
            N == Len(parts)
        IN  /\ ~sp_ret.r.raised
            /\ IsCeilDiv(N, P, c)
            /\ sp_ret.r.num_chunks = N
            /\ \A i \in 1..N :
                  /\ parts[i].name = part_name(i, N)
                  /\ Len(parts[i].pages) = Min(i * c, P) - (i - 1) * c
                  /\ \A k \in 1..Len(parts[i].pages) :
                        parts[i].pages[k] = sp_call.pages[(i - 1) * c + k]
            /\ Concat([i \in 1..N |-> parts[i].pages]) = sp_call.pages

C5_Witness ==
    /\ Returned("split_pdf_file")
    /\ Len(sp_call.pages) = 12 /\ sp_call.chunk_size = 5
    /\ Len(sp_ret.r.part_files) = 3
    /\ sp_ret.r.part_files[1].pages = <<1, 2, 3, 4, 5>>
    /\ sp_ret.r.part_files[2].pages = <<6, 7, 8, 9, 10>>
    /\ sp_ret.r.part_files[3].pages = <<11, 12>>

\* C6: concatenating the contents of the part files split_text_file returns,
\* in part order, gives the original file's bytes, for every byte sequence.
C6_TextPartsReproduceBytes ==
    Returned("split_text_file") =>
        LET parts == sp_ret.r.part_files
        IN  /\ \A i \in 1..Len(parts) : parts[i] \in DOMAIN sp_ret.r.folder
            /\ Concat([i \in 1..Len(parts) |-> sp_ret.r.folder[parts[i]]])
                  = sp_call.bytes

\* the segments of all parts, in part order
AllSegs(parts) == Concat([i \in 1..Len(parts) |-> parts[i].segs])

SegsLen(segs) == SumSeq([k \in 1..Len(segs) |-> segs[k][2]])

\* the segments tile the byte range 0 .. size-1 without gap, overlap or
\* reordering
Tiles(segs, size) ==
    /\ segs # <<>>
    /\ segs[1][1] = 0
    /\ \A k \in 1..(Len(segs) - 1) : segs[k + 1][1] = segs[k][1] + segs[k][2]
    /\ segs[Len(segs)][1] + segs[Len(segs)][2] = size

\* C7: for a file of S > 0 bytes and chunk size C, split_binary_file gives
\* exactly ceil(S/C) parts, each of C bytes but the last of S - (N-1)*C, their
\* concatenation is the original byte sequence, and no read asks for more
\* than min(C, 8 MB) bytes.
C7_BinaryPartsExact ==
    (Returned("split_binary_file") /\ sp_call.file_size > 0) =>
        LET S == sp_call.file_size
            C == sp_call.chunk_size_mb * MB
            parts == sp_ret.r.part_files
            N == Len(parts)
        IN  /\ IsCeilDiv(N, S, C)
            /\ sp_ret.r.num_chunks = N
            /\ \A i \in 1..N :
                  /\ parts[i].name = part_name(i, N)
                  /\ SegsLen(parts[i].segs) = IF i < N THEN C ELSE S - (N - 1) * C
            /\ Tiles(AllSegs(parts), S)
            /\ \A k \in 1..Len(sp_ret.r.reads) :
                  sp_ret.r.reads[k] <= C /\ sp_ret.r.reads[k] <= 8 * MB

C7_Witness ==
    /\ Returned("split_binary_file")
    /\ sp_call.file_size = 20 * MB + 3 /\ sp_call.chunk_size_mb = 9
    /\ Len(sp_ret.r.part_files) = 3
    /\ Len(sp_ret.r.part_files[1].segs) = 2
    /\ SegsLen(sp_ret.r.part_files[3].segs) = 2 * MB + 3

\* C8: the part count split_file reports is the length of the list of part
\* files it returns, and when should_split_file is false it returns no part
\* file, no count and makes no container directory.
C8_SplitPlanCount ==
    Returned("split_file") =>
        /\ (~sp_ret.r.raised /\ ~sp_ret.r.is_none) =>
              sp_ret.r.num_chunks = Len(sp_ret.r.part_files)
        /\ ~should_split_file(sp_call.file).split =>
              /\ sp_ret.r.is_none /\ ~sp_ret.r.raised
              /\ ~sp_ret.r.split_folder
              /\ sp_ret.r.part_files = <<>> /\ sp_ret.r.num_chunks = 0
        /\ sp_ret.r.is_none => ~should_split_file(sp_call.file).split

C8_Witness ==
    /\ Returned("split_file")
    /\ sp_call.file.ext = ".txt" /\ sp_call.file.size = 10 * MB + 1
    /\ sp_call.file.nchars = sp_call.file.size
    /\ sp_ret.r.num_chunks = 210 /\ Len(sp_ret.r.part_files) = 210

C8_WitnessNoSplit ==
    /\ Returned("split_file")
    /\ sp_call.file.ext = ".txt" /\ sp_call.file.size = DEFAULT_TEXT_CHUNK_SIZE + 1
    /\ sp_ret.r.is_none

\* C9: should_split_file is true for every text-family file whose estimated
\* character count exceeds 50,000, and false for a non-PDF file only when
\* neither the size ceiling nor the text threshold is exceeded.
C9_TextThresholdSplits ==
    Returned("should_split_file") =>
        LET f == sp_call.file
            over_text == f.ext \in TextExtensions /\ f.size > DEFAULT_TEXT_CHUNK_SIZE
            over_size == f.size > MAX_FILE_SIZE_MB * MB
        IN  /\ over_text => sp_ret.r.split
            /\ (f.ext # ".pdf" /\ ~sp_ret.r.split) => (~over_size /\ ~over_text)

----------------------------------------------------------------------------
(* convertor/core.py.  A Python string is a sequence of tokens; a token is *)
(* a record naming a piece of text.  None is a value no string equals.     *)

Tok(t) == [t |-> t, a |-> 0, b |-> 0]

Str(t) == <<Tok(t)>>

None == <<Tok("<None>")>>

StartsWith(s, t) == s # <<>> /\ s[1].t = t

Contains(s, t) == \E i \in 1..Len(s) : s[i].t = t

\* bool(s) of a string or None
Truthy(s) == s # None /\ s # <<>>

\* bool(s.strip()) of a string
NonBlank(s) == \E i \in 1..Len(s) : s[i].t # "<whitespace>"

MAX_FILE_SIZE_PROCESS_MB == 50

PDF_MAX_PAGES == 5

PageText == Str("<page text>")

OcrText == Str("<ocr text>")

EmailJson == Str("<email json>")

\* no note at all
PdfNoteNone(k, n) == <<>>

\* "\n[Note: Only k of n pages were processed due to size limits]"
PdfNote(k, n) == <<[t |-> "[Note: Only k of n pages]", a |-> k, b |-> n]>>

\* "[Poznamka: Dokument obsahuje celkem n stranek, ... pouze prvnich k ...]"
ProcessNote(k, n) == <<[t |-> "[Poznamka: celkem n, prvnich k]", a |-> k, b |-> n]>>

AiSkipped == <<Tok("[AI"), Tok("Skipped")>>

AiError == <<Tok("[AI"), Tok("Error")>>

AiPlaceholder == <<Tok("[AI"), Tok("did not provide")>>

AiText == Str("<ai text>")

\* get_ai_summary, get_ai_table_processing: the key is missing, the API call
\* raises, answers nothing, or answers a text
get_ai_text(x) ==
    IF ~x.api_key THEN AiSkipped
    ELSE IF x.api = "raise" THEN AiError
    ELSE IF x.api = "empty" THEN AiPlaceholder
    ELSE AiText

\* get_ai_image_description: as above; a missing image file is re-raised
get_ai_image_description(x, image_missing) ==
    IF ~x.api_key THEN [exc |-> "none", text |-> AiSkipped]
    ELSE IF image_missing THEN [exc |-> "FileNotFoundError", text |-> None]
    ELSE [exc |-> "none", text |-> get_ai_text(x)]

\* extract_text_from_pdf_with_ocr as parse_pdf_file uses it
ocr_result(x) ==
    IF x.ocr = "text" THEN [exc |-> "none", text |-> OcrText]
    ELSE IF x.ocr = "none" THEN [exc |-> "none", text |-> None]
    ELSE [exc |-> "Exception", text |-> None]

parse_pdf_file(x, max_pages, try_ocr) ==
    IF ~x.pdf_readable
    THEN \* PdfReadError: OCR as a fallback, else ValueError
         IF try_ocr /\ x.ocr_available /\ Truthy(ocr_result(x).text)
         THEN [exc |-> "none", text |-> ocr_result(x).text, ocr_called |-> TRUE]
         ELSE [exc |-> "Exception", text |-> None,
               ocr_called |-> try_ocr /\ x.ocr_available]
    ELSE LET total_pages == x.total_pages
             pages_to_process == IF max_pages # 0 THEN Min(total_pages, max_pages)
                                 ELSE total_pages
             page_parts == IF x.pdf_text /\ pages_to_process > 0 THEN PageText
                           ELSE <<>>
             result == page_parts \o
                       (IF total_pages > pages_to_process
                        THEN PdfNote(pages_to_process, total_pages) ELSE <<>>)
         IN  IF ~NonBlank(result) /\ try_ocr /\ x.ocr_available
             THEN IF Truthy(ocr_result(x).text)
                  THEN [exc |-> "none", text |-> ocr_result(x).text, ocr_called |-> TRUE]
                  ELSE [exc |-> "none", text |-> result, ocr_called |-> TRUE]
             ELSE [exc |-> "none", text |-> result, ocr_called |-> FALSE]

\* the extractors that return the text of the file or raise
parse_plain(x) ==
    IF x.parse = "raise" THEN [exc |-> "Exception", text |-> None]
    ELSE IF x.parse = "notfound" THEN [exc |-> "FileNotFoundError", text |-> None]
    ELSE IF x.parse = "empty" THEN [exc |-> "none", text |-> <<>>]
    ELSE IF x.parse = "blank" THEN [exc |-> "none", text |-> Str("<whitespace>")]
    ELSE [exc |-> "none", text |-> Str("<file text>")]

InstallMessage == <<Tok("<whitespace>"), Tok("Antiword is not installed")>>

DocErrorMessage == Str("Error processing .doc file")

parse_doc_file_empty(x) ==
    IF x.antiword = "missing" THEN <<>>
    ELSE IF x.antiword \in {"failed", "exception"} THEN DocErrorMessage
    ELSE IF x.parse \in {"raise", "notfound"} THEN DocErrorMessage
    ELSE parse_plain(x).text

parse_doc_file(x) ==
    IF x.antiword = "missing" THEN InstallMessage
    ELSE IF x.antiword \in {"failed", "exception"} THEN DocErrorMessage
    ELSE IF x.parse \in {"raise", "notfound"} THEN DocErrorMessage
    ELSE parse_plain(x).text

\* raw_content.strip().startswith(prefix)
StripStartsWith(s, t) ==
    LET stripped == SelectSeq(s, LAMBDA k : k.t # "<whitespace>")
    IN  StartsWith(stripped, t)

----------------------------------------------------------------------------
(* process_file *)

\* Path(file_path).suffix.lower()
Lower(suffix) ==
    IF suffix = ".TXT" THEN ".txt"
    ELSE IF suffix = ".Doc" THEN ".doc"
    ELSE IF suffix = ".XYZ" THEN ".xyz"
    ELSE suffix

\* the image list with one more extension in it
ImageExtensionsWide == {".png", ".jpg", ".jpeg", ".webp", ".gif", ".bmp", ".xyz"}

ImageExtensions == {".png", ".jpg", ".jpeg", ".webp", ".gif", ".bmp"}

\* the state of process_file after step 1: the exception raised, if any, the
\* result dict, processed_content, and what has been called
Step(pc, content, error, ai, em, ex) ==
    [exc |-> "none", processed_content |-> pc, content |-> content, error |-> error,
     ai_calls |-> ai, email_checks |-> em, extractor |-> ex]

Raise(exc, ai, em, ex) ==
    [exc |-> exc, processed_content |-> None, content |-> None, error |-> None,
     ai_calls |-> ai, email_checks |-> em, extractor |-> ex]

\* process_email_correspondence(raw_content)[0]
is_email_text(x, raw) == x.is_email /\ NonBlank(raw)

\* "is_email, email_json = process_email_correspondence(raw_content)", then
\* the email JSON or get_ai_summary(raw_content)
email_or_summary(x, raw) ==
    IF is_email_text(x, raw) THEN Step(EmailJson, None, None, 0, 1, TRUE)
    ELSE Step(get_ai_text(x), None, None, 1, 1, TRUE)

txt_branch(x) ==
    LET p == parse_plain(x)
    IN  IF p.exc # "none" THEN Raise(p.exc, 0, 0, TRUE)
        ELSE IF Truthy(p.text) THEN email_or_summary(x, p.text)
        ELSE Step(None, None, Str("Failed to parse text content"), 0, 0, TRUE)

pdf_branch(x) ==
    LET p == parse_pdf_file(x, PDF_MAX_PAGES, TRUE)
        max_pages_to_process == PDF_MAX_PAGES
    IN  IF p.exc # "none"
        THEN Step(None, None, Str("Error processing PDF file"), 0, 0, TRUE)
        ELSE IF Truthy(p.text) /\ NonBlank(p.text)
        THEN email_or_summary(x,
                 p.text \o (IF x.pdf_readable /\ x.total_pages > max_pages_to_process
                            THEN ProcessNote(max_pages_to_process, x.total_pages)
                            ELSE <<>>))
        ELSE IF ~x.ocr_available
        THEN Step(None, None,
                  Str("Failed to extract text content from PDF and OCR is not available"),
                  0, 0, TRUE)
        ELSE IF x.images = "raise"
        THEN Step(None, None, Str("Failed to extract any content from PDF"), 0, 0, TRUE)
        ELSE IF x.images = "none"
        THEN Step(None, None, Str("Failed to extract content from PDF"), 0, 0, TRUE)
        ELSE LET d == get_ai_image_description(x, FALSE)
             IN  Step(Str("[PDF zpracovan jako obrazek]") \o d.text, None, None,
                      1, 0, TRUE)

docx_branch(x) ==
    LET p == parse_plain(x)
    IN  IF p.exc # "none" THEN Raise(p.exc, 0, 0, TRUE)
        ELSE IF Truthy(p.text) THEN email_or_summary(x, p.text)
        ELSE Step(None, None, Str("Failed to extract text content from DOCX"),
                  0, 0, TRUE)

doc_branch(x) ==
    LET raw_content == parse_doc_file(x)
    IN  IF Truthy(raw_content)
        THEN IF \/ StripStartsWith(raw_content, "Antiword is not installed")
                \/ StripStartsWith(raw_content, "Error processing .doc file")
             THEN Step(None, raw_content, Str("DOC file processing requires antiword"),
                       0, 0, TRUE)
             ELSE email_or_summary(x, raw_content)
        ELSE Step(None, None, Str("Failed to extract text content from DOC"),
                  0, 0, TRUE)

image_branch(x) ==
    LET d == get_ai_image_description(x, x.parse = "notfound")
    IN  IF d.exc # "none" THEN Raise(d.exc, 1, 0, FALSE)
        ELSE Step(d.text, None, None, 1, 0, FALSE)

\* .xlsx .xls .csv (get_ai_table_processing), .json .html .htm .odt
\* (get_ai_summary): no email check
ai_only_branch(x) ==
    LET p == parse_plain(x)
    IN  IF p.exc # "none" THEN Raise(p.exc, 0, 0, TRUE)
        ELSE IF Truthy(p.text) THEN Step(get_ai_text(x), None, None, 1, 0, TRUE)
        ELSE Step(None, None, Str("Failed to extract content"), 0, 0, TRUE)

\* step 1: dispatch on the extension
parse_step(x) ==
    LET file_extension == Lower(x.suffix)
    IN  IF file_extension = ".txt" THEN txt_branch(x)
        ELSE IF file_extension = ".pdf" THEN pdf_branch(x)
        ELSE IF file_extension = ".docx" THEN docx_branch(x)
        ELSE IF file_extension = ".doc" THEN doc_branch(x)
        ELSE IF file_extension \in ImageExtensions THEN image_branch(x)
        ELSE IF file_extension \in {".xlsx", ".xls", ".csv", ".json", ".html",
                                    ".htm", ".odt"}
        THEN ai_only_branch(x)
        ELSE Step(None, None, Str("Unsupported file type"), 0, 0, FALSE)

\* step 2: "Final check and assignment to result dict"
final_check(r) ==
    IF r.exc # "none" THEN r
    ELSE IF r.error = None
    THEN IF r.processed_content = None
         THEN [r EXCEPT !.error = Str("Failed to generate processed content")]
         ELSE IF StartsWith(r.processed_content, "[AI")
         THEN IF \/ Contains(r.processed_content, "Error")
                 \/ Contains(r.processed_content, "Skipped")
              THEN [r EXCEPT !.error = r.processed_content]
              ELSE [r EXCEPT !.content = r.processed_content]
         ELSE [r EXCEPT !.content = r.processed_content]
    ELSE r

\* the try block of process_file
process_file_try(x, max_file_size_mb) ==
    IF ~x.is_file THEN Raise("FileNotFoundError", 0, 0, FALSE)
    ELSE IF x.size > max_file_size_mb * MB THEN Raise("Exception", 0, 0, FALSE)
    ELSE final_check(parse_step(x))

\* except FileNotFoundError / except Exception / finally: return result
exception_net_reraise(r) ==
    [raised |-> r.exc = "Exception",
     content |-> r.content,
     error |-> IF r.exc = "FileNotFoundError" THEN Str("File not found") ELSE r.error,
     ai_calls |-> r.ai_calls, email_checks |-> r.email_checks,
     extractor |-> r.extractor]

exception_net(r) ==
    [raised |-> FALSE,
     content |-> r.content,
     error |-> IF r.exc = "FileNotFoundError" THEN Str("File not found")
               ELSE IF r.exc = "Exception"
               THEN Str("An unexpected error occurred during processing")
               ELSE r.error,
     ai_calls |-> r.ai_calls, email_checks |-> r.email_checks,
     extractor |-> r.extractor]

process_file(x) == exception_net(process_file_try(x, MAX_FILE_SIZE_PROCESS_MB))

----------------------------------------------------------------------------
(* process_file applied to bounded inputs: the file and what its           *)
(* collaborators (extractors, antiword, OCR, the AI service) answer.       *)

BaseInput ==
    [is_file |-> TRUE, size |-> 1, suffix |-> ".txt", parse |-> "text",
     is_email |-> FALSE, api_key |-> TRUE, api |-> "text", antiword |-> "ok",
     ocr_available |-> TRUE, pdf_readable |-> TRUE, total_pages |-> 1,
     pdf_text |-> TRUE, ocr |-> "text", images |-> "ok"]

\* present and small, present at the ceiling, present above it, missing
Presence == {<<TRUE, 1>>, <<TRUE, MAX_FILE_SIZE_PROCESS_MB * MB>>,
             <<TRUE, MAX_FILE_SIZE_PROCESS_MB * MB + 1>>, <<FALSE, 1>>}

ParseOutcomes == {"text", "blank", "empty", "raise", "notfound"}

ApiOutcomes == {"text", "empty", "raise"}

PlainSuffixes == {".txt", ".TXT", ".docx", ".csv", ".xlsx", ".json", ".html",
                  ".odt", ".png", ".xyz", ".XYZ"}

PdfPageCounts == {0, 1, PDF_MAX_PAGES, PDF_MAX_PAGES + 2}

PlainInputs ==
    {[BaseInput EXCEPT !.is_file = pr[1], !.size = pr[2], !.suffix = sfx,
                       !.parse = po, !.is_email = em, !.api_key = key, !.api = api]
        : pr \in Presence, sfx \in PlainSuffixes, po \in ParseOutcomes,
          em \in BOOLEAN, key \in BOOLEAN, api \in ApiOutcomes}

DocInputs ==
    {[BaseInput EXCEPT !.is_file = pr[1], !.size = pr[2], !.suffix = sfx,
                       !.parse = po, !.is_email = em, !.api_key = key, !.api = api,
                       !.antiword = aw]
        : pr \in Presence, sfx \in {".doc", ".Doc"}, po \in ParseOutcomes,
          em \in BOOLEAN, key \in BOOLEAN, api \in ApiOutcomes,
          aw \in {"ok", "missing", "failed", "exception"}}

PdfInputs ==
    {[BaseInput EXCEPT !.is_file = pr[1], !.size = pr[2], !.suffix = ".pdf",
                       !.is_email = em, !.api_key = key, !.api = api,
                       !.ocr_available = oa, !.pdf_readable = rd,
                       !.total_pages = IF rd THEN n ELSE 0,
                       !.pdf_text = rd /\ txt, !.ocr = ocr, !.images = img]
        : pr \in Presence, em \in BOOLEAN, key \in BOOLEAN, api \in ApiOutcomes,
          oa \in BOOLEAN, rd \in BOOLEAN, n \in PdfPageCounts, txt \in BOOLEAN,
          ocr \in {"text", "none", "raise"}, img \in {"ok", "none", "raise"}}

ProcessInputs == PlainInputs \cup DocInputs \cup PdfInputs

InitProcess ==
    /\ pf_call \in ProcessInputs
    /\ pf_ret = NotCalled
    /\ sp_call = IdleCall /\ sp_ret = NotCalled
    /\ AppIdle

Call_process_file ==
    /\ pf_call \in ProcessInputs /\ ~pf_ret.done
    /\ pf_ret' = [done |-> TRUE, r |-> process_file(pf_call)]
    /\ UNCHANGED <<pf_call, splitVars, appVars>>

NextProcess == Call_process_file

SpecProcess == InitProcess /\ [][NextProcess]_vars

\* C1: process_file returns a result and never raises, with at least one of
\* content and error set, for every file and every outcome of the extractors
\* and of the AI calls.
C1_ResultAlwaysReturned ==
    pf_ret.done =>
        /\ ~pf_ret.r.raised
        /\ (pf_ret.r.content # None \/ pf_ret.r.error # None)

\* an extractor raised an exception other than FileNotFoundError
C1_Witness ==
    /\ pf_ret.done
    /\ pf_call.is_file /\ pf_call.size = 1
    /\ pf_call.suffix = ".docx" /\ pf_call.parse = "raise"
    /\ pf_ret.r.content = None
    /\ pf_ret.r.error = Str("An unexpected error occurred during processing")

DocWithoutAntiword ==
    /\ pf_ret.done
    /\ Lower(pf_call.suffix) = ".doc"
    /\ pf_call.is_file
    /\ pf_call.antiword = "missing"

\* C10 as stated: for a .doc file when antiword is not installed, the result
\* has both content (the installation instructions) and error set, and no AI
\* call is made.
C10_DocWarningAnySize ==
    DocWithoutAntiword =>
        /\ pf_ret.r.content = InstallMessage
        /\ pf_ret.r.error # None
        /\ pf_ret.r.ai_calls = 0

\* C10 amended: the same, for a .doc file no larger than the size ceiling of
\* process_file (50 MB).
C10_DocWarningWithinCeiling ==
    (DocWithoutAntiword /\ pf_call.size <= MAX_FILE_SIZE_PROCESS_MB * MB) =>
        /\ pf_ret.r.content = InstallMessage
        /\ pf_ret.r.error = Str("DOC file processing requires antiword")
        /\ pf_ret.r.ai_calls = 0

C10_Witness ==
    /\ DocWithoutAntiword
    /\ pf_call.size = MAX_FILE_SIZE_PROCESS_MB * MB
    /\ pf_ret.r.content = InstallMessage
    /\ pf_ret.r.error = Str("DOC file processing requires antiword")

----------------------------------------------------------------------------
(* app.py: the upload handler, the executor's work items running           *)
(* process_file_async, and their error handlers.  A row of UserDocument    *)
(* holds its status, whether processed_content is set, where its           *)
(* error_message comes from ("process": the result of process_file,        *)
(* "async": the worker's handler, "upload": the upload handler's), and the *)
(* split columns.  docs[id] is the committed row with primary key id.      *)

MAX_WORKERS == 4

\* files handled by the upload handler in one run
MaxFiles == 2

Terminal == {"completed", "warning", "error"}

EarlyStage == {"saving", "splitting", "pending", "processing"}

\* UserDocument(...)
UserDocument(status, parent_id, part_number, total_parts) ==
    [status |-> status, processed_content |-> FALSE, error_message |-> "none",
     is_split |-> FALSE, split_folder |-> FALSE, parent_id |-> parent_id,
     part_number |-> part_number, total_parts |-> total_parts]

\* the files uploaded: a small .doc, a 6-page PDF, a 6-page PDF over 50 MB,
\* a PDF over 5 MB that PyPDF2 cannot read, and a text file over 10 MB that
\* decodes to nothing
UploadFiles ==
    {[ext |-> ".doc", size |-> 1, readable |-> FALSE, pages |-> 0, nchars |-> 0],
     [ext |-> ".pdf", size |-> 1, readable |-> TRUE,
      pages |-> DEFAULT_CHUNK_SIZE + 1, nchars |-> 0],
     [ext |-> ".pdf", size |-> MAX_FILE_SIZE_PROCESS_MB * MB + 1, readable |-> TRUE,
      pages |-> DEFAULT_CHUNK_SIZE + 1, nchars |-> 0],
     [ext |-> ".pdf", size |-> 5 * MB + 1, readable |-> FALSE, pages |-> 0,
      nchars |-> 0],
     [ext |-> ".txt", size |-> 10 * MB + 1, readable |-> FALSE, pages |-> 0,
      nchars |-> 0]}

\* the file written for a part of f
PartFile(f, part) ==
    [ext |-> f.ext, size |-> 1, readable |-> f.readable,
     pages |-> IF f.ext = ".pdf" THEN Len(part.pages) ELSE 0, nchars |-> 0]

PartFilesOf(f) ==
    LET r == split_file(f)
    IN  {PartFile(f, r.part_files[i]) : i \in 1..Len(r.part_files)}

TaskFiles == UploadFiles \cup UNION {PartFilesOf(f) : f \in UploadFiles}

\* what process_file can return for a stored file: whether content and
\* error are set
ResultsOf(f) ==
    {[content |-> r.content # None, error |-> r.error # None]
        : r \in {process_file(x)
                    : x \in {y \in ProcessInputs :
                                /\ y.is_file
                                /\ y.suffix = f.ext
                                /\ (y.size > MAX_FILE_SIZE_PROCESS_MB * MB)
                                     = (f.size > MAX_FILE_SIZE_PROCESS_MB * MB)
                                /\ (f.ext = ".pdf" => y.pdf_readable = f.readable)}}}

ProcessResults == [f \in TaskFiles |-> ResultsOf(f)]

\* processing_result before process_file has returned
NoResult == [content |-> FALSE, error |-> FALSE]

\* executor.submit(process_file_async, file_path, doc_id); result is the
\* processing_result the work item has committed
submit_processing_task(q, file, doc_id, part) ==
    Append(q, [doc_id |-> doc_id, file |-> file, part |-> part, pc |-> "queued",
               raised |-> "none", result |-> NoResult])

\* the second with-block of process_file_async: the result of process_file
\* written to the row; the variant without the warning case
update_document_no_warning(doc, r) ==
    IF r.error /\ ~r.content
    THEN [doc EXCEPT !.status = "error", !.error_message = "process"]
    ELSE IF r.error /\ r.content
    THEN doc
    ELSE [doc EXCEPT !.status = "completed", !.processed_content = TRUE]

update_document(doc, r) ==
    IF r.error /\ ~r.content
    THEN [doc EXCEPT !.status = "error", !.error_message = "process"]
    ELSE IF r.error /\ r.content
    THEN [doc EXCEPT !.status = "warning", !.error_message = "process",
                     !.processed_content = TRUE]
    ELSE [doc EXCEPT !.status = "completed", !.processed_content = TRUE]

\* "if doc and doc.status != 'completed'" of the two error handlers; the
\* variant without the test
mark_error_unguarded(doc, origin) ==
    [doc EXCEPT !.status = "error", !.error_message = origin]

mark_error(doc, origin) ==
    IF doc.status # "completed"
    THEN [doc EXCEPT !.status = "error", !.error_message = origin]
    ELSE doc

\* "except Exception as split_error": the row goes back to pending; the
\* variant that gives the upload up
split_fallback_abort(doc) ==
    [doc EXCEPT !.status = "error", !.error_message = "upload"]

split_fallback(doc) == [doc EXCEPT !.status = "pending"]

Entry(doc_id, status, warning, error, parts) ==
    [doc_id |-> doc_id, status |-> status, warning |-> warning, error |-> error,
     parts |-> parts]

InitApp ==
    /\ AppIdle
    /\ sp_call = IdleCall /\ sp_ret = NotCalled
    /\ pf_call = IdleCall /\ pf_ret = NotCalled

\* upload_files, one file of the loop: the initial row, status 'saving'
U_Create ==
    /\ up.pc = "idle" /\ up.n < MaxFiles
    /\ \E f \in UploadFiles :
          /\ docs' = Append(docs, UserDocument("saving", 0, 0, 0))
          /\ up' = [UpIdle EXCEPT !.pc = "save", !.n = up.n + 1, !.file = f,
                                  !.doc_id = Len(docs) + 1]
    /\ UNCHANGED <<tasks, resp, split_failed, disk, reqs, splitVars, procVars>>

\* file.save, should_split_file, then 'splitting', or 'pending' and the work item
U_Save ==
    /\ up.pc = "save"
    /\ IF should_split_file(up.file).split
       THEN /\ docs' = [docs EXCEPT ![up.doc_id].status = "splitting"]
            /\ up' = [up EXCEPT !.pc = "split"]
            /\ UNCHANGED <<tasks, resp>>
       ELSE /\ docs' = [docs EXCEPT ![up.doc_id].status = "pending"]
            /\ tasks' = submit_processing_task(tasks, up.file, up.doc_id, 0)
            /\ resp' = Append(resp, Entry(up.doc_id, "pending", FALSE, FALSE, 0))
            /\ up' = [up EXCEPT !.pc = "idle"]
    /\ UNCHANGED <<split_failed, disk, reqs, splitVars, procVars>>

\* file.save raises
U_SaveRaise ==
    /\ up.pc = "save"
    /\ up' = [up EXCEPT !.pc = "outer"]
    /\ UNCHANGED <<docs, tasks, resp, split_failed, disk, reqs, splitVars, procVars>>

\* create_split_folder: os.makedirs(upload_folder/split_<uuid4>); the part
\* files are written into it
SplitFolder(doc_id, files) == [doc_id |-> doc_id, files |-> files]

\* split_file: it raises, or the parent row becomes 'split', or (no part)
\* the original file is processed; the folder it made stays where it is
U_Split ==
    /\ up.pc = "split"
    /\ LET r == split_file(up.file)
       IN  /\ disk' = IF r.split_folder
                      THEN disk \cup {SplitFolder(up.doc_id, Len(r.part_files))}
                      ELSE disk
           /\ IF r.raised
              THEN /\ up' = [up EXCEPT !.pc = "inner"]
                   /\ split_failed' = split_failed \cup {up.doc_id}
                   /\ UNCHANGED <<docs, tasks, resp>>
              ELSE IF r.split_folder /\ r.part_files # <<>> /\ r.num_chunks > 0
              THEN /\ docs' = [docs EXCEPT ![up.doc_id] =
                                  [@ EXCEPT !.is_split = TRUE, !.split_folder = TRUE,
                                            !.total_parts = r.num_chunks,
                                            !.status = "split"]]
                   /\ up' = [up EXCEPT !.pc = "parts", !.parts = r.part_files,
                                       !.num_chunks = r.num_chunks]
                   /\ UNCHANGED <<tasks, resp, split_failed>>
              ELSE /\ docs' = [docs EXCEPT ![up.doc_id].status = "pending"]
                   /\ tasks' = submit_processing_task(tasks, up.file, up.doc_id, 0)
                   /\ resp' = Append(resp, Entry(up.doc_id, "pending", FALSE, FALSE, 0))
                   /\ up' = [up EXCEPT !.pc = "idle"]
                   /\ UNCHANGED split_failed
    /\ UNCHANGED <<reqs, splitVars, procVars>>

\* one turn of "for i, part_file in enumerate(part_files)"
U_Part ==
    /\ up.pc = "parts" /\ up.parts # <<>>
    /\ LET i == Len(up.part_ids) + 1
           part_doc_id == Len(docs) + 1
       IN  /\ docs' = Append(docs, UserDocument("pending", up.doc_id, i, up.num_chunks))
           /\ tasks' = submit_processing_task(tasks, PartFile(up.file, Head(up.parts)),
                                              part_doc_id, i)
           /\ up' = [up EXCEPT !.parts = Tail(up.parts),
                               !.part_ids = Append(up.part_ids, part_doc_id)]
    /\ UNCHANGED <<resp, split_failed, disk, reqs, splitVars, procVars>>

\* after the loop: the response entry of a split file
U_PartsDone ==
    /\ up.pc = "parts" /\ up.parts = <<>>
    /\ resp' = Append(resp, Entry(up.doc_id, "split", FALSE, FALSE, up.num_chunks))
    /\ up' = [up EXCEPT !.pc = "idle"]
    /\ UNCHANGED <<docs, tasks, split_failed, disk, reqs, splitVars, procVars>>

\* except Exception as split_error
U_SplitError ==
    /\ up.pc = "inner"
    /\ docs' = [docs EXCEPT ![up.doc_id] = split_fallback(@)]
    /\ tasks' = submit_processing_task(tasks, up.file, up.doc_id, 0)
    /\ resp' = Append(resp, Entry(up.doc_id, "pending", TRUE, FALSE, 0))
    /\ up' = [up EXCEPT !.pc = "idle"]
    /\ UNCHANGED <<split_failed, disk, reqs, splitVars, procVars>>

\* except Exception as e (the outer handler of the loop body)
U_Error ==
    /\ up.pc = "outer"
    /\ docs' = [docs EXCEPT ![up.doc_id] = mark_error(@, "upload")]
    /\ resp' = Append(resp, Entry(up.doc_id, "error", FALSE, TRUE, 0))
    /\ up' = [up EXCEPT !.pc = "idle"]
    /\ UNCHANGED <<tasks, split_failed, disk, reqs, splitVars, procVars>>

\* work items a pool thread is running
Running == {i \in DOMAIN tasks : tasks[i].pc \in {"process", "handler"}}

\* a pool thread takes the oldest queued work item
CanStart(i) ==
    /\ i \in DOMAIN tasks /\ tasks[i].pc = "queued"
    /\ \A j \in 1..(i - 1) : tasks[j].pc # "queued"
    /\ Cardinality(Running) < MAX_WORKERS

\* process_file_async, first with-block: 'processing'
W_Start(i) ==
    /\ CanStart(i)
    /\ IF tasks[i].doc_id \in DOMAIN docs
       THEN /\ docs' = [docs EXCEPT ![tasks[i].doc_id].status = "processing"]
            /\ tasks' = [tasks EXCEPT ![i].pc = "process"]
       ELSE /\ tasks' = [tasks EXCEPT ![i].pc = "done"]
            /\ UNCHANGED docs
    /\ UNCHANGED <<up, resp, split_failed, disk, reqs, splitVars, procVars>>

\* the first get or commit raises
W_StartRaise(i) ==
    /\ CanStart(i)
    /\ tasks' = [tasks EXCEPT ![i].pc = "handler", ![i].raised = "start"]
    /\ UNCHANGED <<docs, up, resp, split_failed, disk, reqs, splitVars, procVars>>

\* process_file, then the second with-block: the result is committed; the
\* read of doc_to_update.status after the commit may raise
W_Finish(i) ==
    /\ i \in DOMAIN tasks /\ tasks[i].pc = "process"
    /\ \E r \in ProcessResults[tasks[i].file], after \in BOOLEAN :
          IF tasks[i].doc_id \in DOMAIN docs
          THEN /\ docs' = [docs EXCEPT ![tasks[i].doc_id] = update_document(@, r)]
               /\ tasks' = [tasks EXCEPT
                               ![i].pc = IF after THEN "handler" ELSE "done",
                               ![i].raised = IF after THEN "after" ELSE "none",
                               ![i].result = r]
          ELSE /\ tasks' = [tasks EXCEPT ![i].pc = "done"]
               /\ UNCHANGED docs
    /\ UNCHANGED <<up, resp, split_failed, disk, reqs, splitVars, procVars>>

\* the second get or commit raises: nothing of the result is committed
W_FinishRaise(i) ==
    /\ i \in DOMAIN tasks /\ tasks[i].pc = "process"
    /\ tasks' = [tasks EXCEPT ![i].pc = "handler", ![i].raised = "finish"]
    /\ UNCHANGED <<docs, up, resp, split_failed, disk, reqs, splitVars, procVars>>

\* except Exception as e
W_Error(i) ==
    /\ i \in DOMAIN tasks /\ tasks[i].pc = "handler"
    /\ IF tasks[i].doc_id \in DOMAIN docs
       THEN docs' = [docs EXCEPT ![tasks[i].doc_id] = mark_error(@, "async")]
       ELSE UNCHANGED docs
    /\ tasks' = [tasks EXCEPT ![i].pc = "done"]
    /\ UNCHANGED <<up, resp, split_failed, disk, reqs, splitVars, procVars>>

\* the most work items one uploaded file gives
TasksPerFile ==
    LET ns == {split_file(f).num_chunks : f \in UploadFiles} \cup {1}
    IN  CHOOSE n \in ns : \A m \in ns : m <= n

TaskIds == 1..(MaxFiles * TasksPerFile)

Next ==
    \/ U_Create \/ U_Save \/ U_SaveRaise \/ U_Split \/ U_Part \/ U_PartsDone
    \/ U_SplitError \/ U_Error
    \/ \E i \in TaskIds :
          W_Start(i) \/ W_StartRaise(i) \/ W_Finish(i) \/ W_FinishRaise(i)
              \/ W_Error(i)

Spec == InitApp /\ [][Next]_vars

\* a pool thread that holds a work item runs it to its end
WorkerRuns(i) == W_Start(i) \/ W_Finish(i) \/ W_Error(i)

FairSpec == Spec /\ \A i \in TaskIds : WF_vars(WorkerRuns(i))

TasksOf(d) == {i \in DOMAIN tasks : tasks[i].doc_id = d}

Ended(i) == i \in DOMAIN tasks /\ tasks[i].pc = "done"

EndedTerminal(i) ==
    Ended(i) /\ docs[tasks[i].doc_id].status \in Terminal

C3_StatusNeverRegresses ==
    [][\A d \in DOMAIN docs :
          /\ docs[d].status \in Terminal => docs'[d].status \notin EarlyStage
          /\ docs[d].status = "completed" => docs'[d].status = "completed"]_vars

\* the worker's handler has run on a completed document, and the upload
\* handler's on another
C3_Witness ==
    /\ \E i \in DOMAIN tasks :
          /\ Ended(i) /\ tasks[i].raised = "after"
          /\ docs[tasks[i].doc_id].status = "completed"
    /\ \E d \in DOMAIN docs :
          docs[d].status = "error" /\ docs[d].error_message = "upload"

\* C4: when split_file has raised for a document, the upload goes on: once
\* the handler is past the failure the document has exactly one work item,
\* for the original file, queued with the document pending; the response
\* holds one entry for it, pending, with a warning and without error; no
\* part exists; and an error status of the document never comes from the
\* upload handler.
C4_SplitFailureFallsBack ==
    \A d \in split_failed :
        IF up.pc = "inner" /\ up.doc_id = d
        THEN TasksOf(d) = {} /\ docs[d].status = "splitting"
        ELSE /\ Cardinality(TasksOf(d)) = 1
             /\ \A i \in TasksOf(d) :
                   /\ tasks[i].part = 0
                   /\ should_split_file(tasks[i].file).split
                   /\ tasks[i].pc = "queued" => docs[d].status = "pending"
             /\ Cardinality({k \in DOMAIN resp : resp[k].doc_id = d}) = 1
             /\ \A k \in DOMAIN resp :
                   resp[k].doc_id = d =>
                       /\ resp[k].status = "pending"
                       /\ resp[k].warning /\ ~resp[k].error
             /\ ~docs[d].is_split
             /\ \A p \in DOMAIN docs : docs[p].parent_id # d
             /\ docs[d].status \notin {"saving", "splitting", "split"}
             /\ docs[d].status = "error" => docs[d].error_message # "upload"

\* the fallback has been taken and the original file has been processed
C4_Witness ==
    \E d \in split_failed :
        /\ up.pc = "idle"
        /\ \E i \in TasksOf(d) : Ended(i) /\ tasks[i].raised = "none"
        /\ docs[d].status \in Terminal
        /\ \E k \in DOMAIN resp : resp[k].doc_id = d /\ resp[k].warning

----------------------------------------------------------------------------
(* process_file: unsupported extensions *)

\* the extensions the spec lists as supported
SupportedSet ==
    {".txt", ".pdf", ".docx", ".doc", ".odt", ".html", ".htm", ".xlsx", ".xls",
     ".csv", ".json", ".png", ".jpg", ".jpeg", ".webp", ".gif", ".bmp"}

\* lower case of the suffixes the inputs use
LowerCased(suffix) ==
    CASE suffix = ".TXT" -> ".txt"
      [] suffix = ".Doc" -> ".doc"
      [] suffix = ".XYZ" -> ".xyz"
      [] OTHER -> suffix

UnsupportedCall ==
    /\ pf_ret.done
    /\ pf_call.is_file
    /\ LowerCased(pf_call.suffix) \notin SupportedSet

UnsupportedResult ==
    /\ Contains(pf_ret.r.error, "Unsupported file type")
    /\ pf_ret.r.content = None
    /\ ~pf_ret.r.extractor
    /\ pf_ret.r.ai_calls = 0

\* C11 as stated: for a file whose extension, lower-cased, is not supported,
\* process_file returns the error 'Unsupported file type' with content absent
\* and runs no extractor and no AI call, whatever the size of the file.
C11_UnsupportedAnySize == UnsupportedCall => UnsupportedResult

\* C11 amended: the same for files no larger than the size ceiling; above the
\* ceiling the result is an error too, without content, extractor or AI call,
\* but the error is the size error.
C11_UnsupportedWithinCeiling ==
    UnsupportedCall =>
        IF pf_call.size <= MAX_FILE_SIZE_PROCESS_MB * MB
        THEN UnsupportedResult
        ELSE /\ pf_ret.r.error = Str("An unexpected error occurred during processing")
             /\ pf_ret.r.content = None
             /\ ~pf_ret.r.extractor
             /\ pf_ret.r.ai_calls = 0

\* an upper-case unsupported suffix, at the ceiling
C11_Witness ==
    /\ UnsupportedCall
    /\ pf_call.suffix = ".XYZ"
    /\ pf_call.size = MAX_FILE_SIZE_PROCESS_MB * MB
    /\ UnsupportedResult

----------------------------------------------------------------------------
(* parse_pdf_file applied to bounded inputs *)

\* pages of a PDF, and the page caps tried (0: no cap)
MaxPdfPages == 7

MaxPageCap == 5

PdfCalls ==
    {[fn |-> "parse_pdf_file",
      x |-> [BaseInput EXCEPT !.suffix = ".pdf", !.pdf_readable = rd,
                              !.total_pages = IF rd THEN n ELSE 0,
                              !.pdf_text = rd /\ txt, !.ocr = ocr,
                              !.ocr_available = oa],
      max_pages |-> k, try_ocr |-> t]
        : rd \in BOOLEAN, n \in 0..MaxPdfPages, txt \in BOOLEAN,
          ocr \in {"text", "none", "raise"}, oa \in BOOLEAN,
          k \in 0..MaxPageCap, t \in BOOLEAN}

InitPdf ==
    /\ pf_call \in PdfCalls
    /\ pf_ret = NotCalled
    /\ sp_call = IdleCall /\ sp_ret = NotCalled
    /\ AppIdle

Call_parse_pdf_file ==
    /\ pf_call \in PdfCalls /\ ~pf_ret.done
    /\ pf_ret' = [done |-> TRUE,
                  r |-> parse_pdf_file(pf_call.x, pf_call.max_pages, pf_call.try_ocr)]
    /\ UNCHANGED <<pf_call, splitVars, appVars>>

NextPdf == Call_parse_pdf_file

SpecPdf == InitPdf /\ [][NextPdf]_vars

\* the note "Only k of n pages were processed" is part of the text
HasNote(text, k, n) ==
    \E i \in 1..Len(text) :
        text[i] = [t |-> "[Note: Only k of n pages]", a |-> k, b |-> n]

\* C12: for a readable PDF with more pages than the cap, the text that
\* parse_pdf_file returns holds the note "K of T pages", whether or not the
\* pages yield text and whether or not OCR is available.
C12_NoteWhenOverCap ==
    (/\ pf_ret.done
     /\ pf_call.x.pdf_readable
     /\ pf_call.max_pages >= 1
     /\ pf_call.x.total_pages > pf_call.max_pages) =>
        /\ pf_ret.r.exc = "none"
        /\ HasNote(pf_ret.r.text, pf_call.max_pages, pf_call.x.total_pages)

\* 7 pages with text, cap 5: the page text and the note '5 of 7'
C12_Witness ==
    /\ pf_ret.done
    /\ pf_call.x.pdf_readable /\ pf_call.x.pdf_text
    /\ pf_call.x.total_pages = 7 /\ pf_call.max_pages = 5
    /\ pf_ret.r.text = PageText \o PdfNote(5, 7)

\* C13: with try_ocr set and OCR available, when no permitted page of a
\* readable PDF yields text, the OCR fallback is called before
\* parse_pdf_file returns, for every total page count.
C13_OcrWhenNoPageText ==
    (/\ pf_ret.done
     /\ pf_call.try_ocr /\ pf_call.x.ocr_available
     /\ pf_call.x.pdf_readable
     /\ ~pf_call.x.pdf_text) =>
        pf_ret.r.ocr_called

----------------------------------------------------------------------------
(* process_file: email check and AI call *)

\* the extractor of the file's format has returned text
ExtractorReturnedText ==
    LET ext == LowerCased(pf_call.suffix)
    IN  /\ pf_call.is_file
        /\ pf_call.size <= MAX_FILE_SIZE_PROCESS_MB * MB
        /\ \/ /\ ext \in {".txt", ".docx", ".csv", ".xlsx", ".xls", ".json",
                          ".html", ".htm", ".odt"}
              /\ pf_call.parse = "text"
           \/ /\ ext = ".doc"
              /\ pf_call.antiword = "ok" /\ pf_call.parse = "text"
           \/ /\ ext = ".pdf"
              /\ parse_pdf_file(pf_call, PDF_MAX_PAGES, TRUE).exc = "none"
              /\ NonBlank(parse_pdf_file(pf_call, PDF_MAX_PAGES, TRUE).text)

\* C14: on the success path, for every format whose extractor returned text,
\* the text goes through the email check before any AI call; email text
\* becomes the content without an AI call, other text gets exactly one AI
\* call whose answer becomes the content.
C14_EmailCheckBeforeAi ==
    (pf_ret.done /\ ExtractorReturnedText /\ pf_ret.r.error = None) =>
        /\ pf_ret.r.email_checks = 1
        /\ IF pf_call.is_email
           THEN pf_ret.r.content = EmailJson /\ pf_ret.r.ai_calls = 0
           ELSE pf_ret.r.content = get_ai_text(pf_call) /\ pf_ret.r.ai_calls = 1

----------------------------------------------------------------------------
(* convertor/email_parser.py: a text is a sequence of pieces.  A piece is a *)
(* header label, an address, a word, a newline or a quotation marker; the   *)
(* only white space of a text is the newline.                               *)

Marker == "-----Original Message-----"

Word200 == "x200"

Word150 == "x150"

\* len() of a piece
Chars(piece) ==
    CASE piece = "From:" -> 5
      [] piece = "To:" -> 3
      [] piece = "Subject:" -> 8
      [] piece = "Sent:" -> 5
      [] piece = "BCC:" -> 4
      [] piece = "a@b.c" -> 5
      [] piece = "x" -> 1
      [] piece = Word200 -> 200
      [] piece = Word150 -> 150
      [] piece = "\n" -> 1
      [] piece = Marker -> 26

\* the offset of the k-th piece in the text; Offset(text, Len(text) + 1) is
\* len(text)
RECURSIVE Offset(_, _)
Offset(text, k) == IF k <= 1 THEN 0 ELSE Offset(text, k - 1) + Chars(text[k - 1])

TextLen(text) == Offset(text, Len(text) + 1)

\* text[a:b] for offsets a and b that are starts of pieces
Slice(text, a, b) ==
    LET idx == {k \in 1..Len(text) : a <= Offset(text, k) /\ Offset(text, k) < b}
        lo == IF idx = {} THEN 1 ELSE CHOOSE k \in idx : \A j \in idx : k <= j
        hi == IF idx = {} THEN 0 ELSE CHOOSE k \in idx : \A j \in idx : j <= k
    IN  SubSeq(text, lo, hi)

\* str.strip()
RECURSIVE lstrip(_)
lstrip(text) ==
    IF text # <<>> /\ Head(text) = "\n" THEN lstrip(Tail(text)) ELSE text

RECURSIVE rstrip(_)
rstrip(text) ==
    IF text # <<>> /\ text[Len(text)] = "\n"
    THEN rstrip(SubSeq(text, 1, Len(text) - 1))
    ELSE text

strip(text) == rstrip(lstrip(text))

EMAIL_HEADER_PATTERNS ==
    <<"Od:", "Odesilatel:", "From:", "Sender:", "Komu:", "Pro:", "To:",
      "Predmet:", "Subject:", "Datum:", "Date:", "Kopie:", "CC:",
      "Skryta kopie:", "BCC:">>

NEW_EMAIL_PATTERNS ==
    <<"Puvodni zprava", "Original Message", "Forwarded message",
      "Preposlana zprava", "Dne napsal", "On wrote", "From Sent To",
      "Od Odeslano Komu">>

\* the labels that a search finds at a piece: 'CC:' is found inside 'BCC:'
LabelsAt(piece) ==
    CASE piece = "BCC:" -> {"BCC:", "CC:"}
      [] piece \in {"From:", "To:", "Subject:", "Sent:"} -> {piece}
      [] OTHER -> {}

\* the first piece after k that is not a newline, 0 when there is none:
\* where '\s*' stops
FirstNonNl(text, k) ==
    LET rest == {j \in (k + 1)..Len(text) : text[j] # "\n"}
    IN  IF rest = {} THEN 0 ELSE CHOOSE j \in rest : \A i \in rest : j <= i

\* the last piece of the line that holds piece s: where '[^\n]+' stops
LineEnd(text, s) ==
    LET nls == {j \in (s + 1)..Len(text) : text[j] = "\n"}
    IN  IF nls = {} THEN Len(text)
        ELSE (CHOOSE j \in nls : \A i \in nls : j <= i) - 1

\* 'Label:\s*([^\n]+)' at piece k for the labels of a family: the last piece
\* of the match, 0 when there is no match at k
label_value_end(family, text, k) ==
    LET s == FirstNonNl(text, k)
    IN  IF LabelsAt(text[k]) \cap family # {} /\ s # 0
        THEN LineEnd(text, s)
        ELSE 0

\* the pieces of group(1) of 'Label:\s*([^\n]+)' matched at piece k
label_value(text, k) ==
    LET s == FirstNonNl(text, k) IN SubSeq(text, s, LineEnd(text, s))

\* 'From:[\s\w@\.<>]+Sent:[\s\w,]+To:' at piece k
\* the first piece after k with a character outside the class, Len + 1
\* when there is none: where '[class]+' stops
run_end(class, text, k) ==
    CHOOSE j \in (k + 1)..(Len(text) + 1) :
        /\ j = Len(text) + 1 \/ text[j] \notin class
        /\ \A i \in (k + 1)..(j - 1) : text[i] \in class

\* the piece after a run of at least one piece of the class that follows
\* piece k, when it is the label; else 0
label_after_run(class, label, text, k) ==
    IF k = 0 \/ k >= Len(text) THEN 0
    ELSE IF /\ run_end(class, text, k) > k + 1
            /\ run_end(class, text, k) <= Len(text)
            /\ text[run_end(class, text, k)] = label
         THEN run_end(class, text, k)
         ELSE 0

outlook_end(text, k) ==
    IF text[k] # "From:" THEN 0
    ELSE label_after_run({"x", Word200, Word150, "\n"}, "To:", text,
             label_after_run({"a@b.c", "x", Word200, Word150, "\n"}, "Sent:", text, k))

\* '(?:From:|...)\s*([^\n]+)[\n\r]+(?:next labels)' at piece k
\* after the value that ends at piece e come newlines and a label of next
cluster_label(next, text, e, m) ==
    IF e # 0 /\ m > e + 1 /\ text[m] \in next THEN m ELSE 0

cluster_after(next, text, e) ==
    cluster_label(next, text, e, IF e = 0 THEN 0 ELSE FirstNonNl(text, e))

header_cluster_end(next, text, k) ==
    cluster_after(next, text,
        label_value_end({"Od:", "Odesilatel:", "From:", "Sender:"}, text, k))

\* the labels of a pattern 'label or label ...:\s*([^\n]+)'
LabelsOf(p) ==
    CASE p = "from" -> {"Od:", "Odesilatel:", "From:", "Sender:"}
      [] p = "to" -> {"Komu:", "Pro:", "To:"}
      [] p = "subject" -> {"Predmet:", "Subject:"}
      [] p = "date" -> {"Datum:", "Date:", "Odeslano:", "Sent:"}
      [] p = "cc" -> {"Kopie:", "CC:"}
      [] p = "bcc" -> {"Skryta kopie:", "BCC:"}
      [] OTHER -> {p}

\* the labels that end a header pattern of lines 99-103
NextLabelsOf(p) ==
    CASE p = "header To" -> {"Komu:", "Pro:", "To:"}
      [] p = "header Sent" -> {"Odeslano:", "Sent:", "Datum:", "Date:"}
      [] p = "header Subject" -> {"Predmet:", "Subject:"}

\* a match of pattern p that starts at piece k: its last piece, or 0
match_end(p, text, k) ==
    IF p = "Original Message" THEN (IF text[k] = Marker THEN k ELSE 0)
    ELSE IF p = "From Sent To" THEN outlook_end(text, k)
    ELSE IF p \in {"header To", "header Sent", "header Subject"}
         THEN header_cluster_end(NextLabelsOf(p), text, k)
    ELSE IF p \in {"Puvodni zprava", "Forwarded message", "Preposlana zprava",
                   "Dne napsal", "On wrote", "Od Odeslano Komu"}
         THEN 0
    ELSE label_value_end(LabelsOf(p), text, k)

\* re.finditer(p, text): the pieces where the matches start, left to right,
\* each search resuming after the previous match
RECURSIVE finditer(_, _, _)
finditer(p, text, k) ==
    IF k > Len(text) THEN <<>>
    ELSE LET e == match_end(p, text, k)
             rest == finditer(p, text, IF e > 0 THEN e + 1 ELSE k + 1)
         IN  IF e > 0 THEN <<k>> \o rest ELSE rest

\* re.search(p, text)
search(p, text) == finditer(p, text, 1) # <<>>

\* header_count: the number of patterns of the list that are found
header_count(text) ==
    Cardinality({i \in 1..Len(EMAIL_HEADER_PATTERNS) :
                    search(EMAIL_HEADER_PATTERNS[i], text)})

\* re.findall(EMAIL_REGEX, text): the pieces that hold an address
email_addresses(text) == {k \in 1..Len(text) : text[k] = "a@b.c"}

forwarded_markers(text) ==
    Cardinality({i \in 1..Len(NEW_EMAIL_PATTERNS) :
                    search(NEW_EMAIL_PATTERNS[i], text)})

HEADER_THRESHOLD == 3

is_email_correspondence_any_header(text) ==
    \/ header_count(text) >= 1 /\ Cardinality(email_addresses(text)) >= 1
    \/ forwarded_markers(text) >= 1

is_email_correspondence(text) ==
    \/ /\ header_count(text) >= HEADER_THRESHOLD
       /\ Cardinality(email_addresses(text)) >= 1
    \/ forwarded_markers(text) >= 1

----------------------------------------------------------------------------
(* extract_email_parts *)

header_patterns == <<"header To", "header Sent", "header Subject">>

\* the offsets of the pieces of a sequence of piece numbers
Offsets(text, ks) == [i \in 1..Len(ks) |-> Offset(text, ks[i])]

\* the match is at the start of the text or of a line
AtLineStart(text, k) == k = 1 \/ text[k - 1] = "\n"

\* list.sort on positions
RECURSIVE Insert(_, _)
Insert(n, ns) ==
    IF ns = <<>> THEN <<n>>
    ELSE IF n < Head(ns) THEN <<n>> \o ns
         ELSE <<Head(ns)>> \o Insert(n, Tail(ns))

RECURSIVE sort(_)
sort(ns) == IF ns = <<>> THEN <<>> ELSE Insert(Head(ns), sort(Tail(ns)))

\* lines 114-129: the sorted start positions of the matches of the marker
\* patterns and of the header patterns that start a line
marker_matches(text) ==
    sort(
        Concat([i \in 1..Len(NEW_EMAIL_PATTERNS) |->
                   Offsets(text, finditer(NEW_EMAIL_PATTERNS[i], text, 1))])
        \o
        Concat([i \in 1..Len(header_patterns) |->
                   Offsets(text,
                       SelectSeq(finditer(header_patterns[i], text, 1),
                                 LAMBDA k : AtLineStart(text, k)))]))

\* re.search(extended_pattern, text)
search_extended(text) ==
    \E i \in 1..Len(NEW_EMAIL_PATTERNS \o header_patterns) :
        search((NEW_EMAIL_PATTERNS \o header_patterns)[i], text)

\* text[a:b].strip() is not empty
NonBlankSlice(text, a, b) == strip(Slice(text, a, b)) # <<>>

\* the first match position after pos, len(text) when there is none
next_pos_of(text, matches, pos) ==
    LET later == {i \in 1..Len(matches) : matches[i] > pos}
    IN  IF later = {} THEN TextLen(text)
        ELSE matches[CHOOSE i \in later : \A j \in later : i <= j]

\* lines 139-140, 150-151, 156-157: text[a:b].strip() is appended when b is
\* after a and the slice is not blank
append_block(text, blocks, a, b) ==
    IF b > a /\ NonBlankSlice(text, a, b) THEN Append(blocks, <<a, b>>) ELSE blocks

\* lines 136-157: a block is the pair of offsets <<a, b>> of text[a:b]
RECURSIVE marker_loop(_, _, _, _, _)
marker_loop(text, matches, i, last_pos, blocks) ==
    IF i > Len(matches)
    THEN append_block(text, blocks, last_pos, TextLen(text))
    ELSE marker_loop(text, matches, i + 1,
                     next_pos_of(text, matches, matches[i]),
                     append_block(text,
                         append_block(text, blocks, last_pos, matches[i]),
                         matches[i], next_pos_of(text, matches, matches[i])))

PROXIMITY == 200

\* lines 161-173
header_matches(text) ==
    sort(Concat([i \in 1..4 |->
        Offsets(text, finditer(<<"from", "to", "subject", "date">>[i], text, 1))]))

email_starts_none(text) == <<>>

\* lines 176-185
close_triples(hm) ==
    SelectSeq([i \in 1..Len(hm) |-> i],
              LAMBDA i : /\ i + 2 <= Len(hm)
                         /\ hm[i + 1] - hm[i] < PROXIMITY
                         /\ hm[i + 2] - hm[i + 1] < PROXIMITY)

starts_at(hm, hits) == [j \in 1..Len(hits) |-> hm[hits[j]]]

starts_among(hm) == starts_at(hm, close_triples(hm))

email_starts(text) == starts_among(header_matches(text))

\* lines 188-194
proximity_blocks(text, starts) ==
    LET all == [i \in 1..Len(starts) |->
                   <<starts[i],
                     IF i + 1 <= Len(starts) THEN starts[i + 1] ELSE TextLen(text)>>]
    IN  SelectSeq(all, LAMBDA blk : NonBlankSlice(text, blk[1], blk[2]))

\* lines 96-197: the branch taken and email_blocks
\* lines 131-157: the marker branch, with the matches found
marker_blocks(text, matches) ==
    IF matches = <<>>
    THEN [path |-> "markers: no match", blocks |-> <<<<0, TextLen(text)>>>>]
    ELSE [path |-> "markers", blocks |-> marker_loop(text, matches, 1, 0, <<>>)]

\* lines 188-197: the fallback branch, with the starts found
fallback_blocks(text, starts) ==
    IF starts # <<>>
    THEN [path |-> "proximity", blocks |-> proximity_blocks(text, starts)]
    ELSE [path |-> "proximity: no start", blocks |-> <<<<0, TextLen(text)>>>>]

email_blocks(text) ==
    IF search_extended(text)
    THEN marker_blocks(text, marker_matches(text))
    ELSE fallback_blocks(text, email_starts(text))

\* the text of a block; the whole-text block is not stripped
block_text(text, blk) ==
    IF blk = <<0, TextLen(text)>> THEN text ELSE strip(Slice(text, blk[1], blk[2]))

\* lines 204-214: group(1) of the first match of the pattern in the block
first_value(block, found) ==
    IF found # <<>> THEN label_value(block, Head(found)) ELSE <<"<None>">>

header_field(p, block) == first_value(block, finditer(p, block, 1))

\* lines 200-250: the record of the n-th block; now is the clock reading
header_fields(block) ==
    [name \in {"from", "to", "subject", "date", "cc", "bcc"} |->
        header_field(name, block)]

email_data(text, blk, now) ==
    header_fields(block_text(text, blk)) @@ [block |-> blk, timestamp |-> now]

\* the records left in the order of the blocks
no_reverse(xs) == xs

\* line 253: list.reverse()
reverse(xs) == [i \in 1..Len(xs) |-> xs[Len(xs) + 1 - i]]

\* extract_email_parts(text); the clock reads now0 + n * tick when the n-th
\* block is processed
email_parts_of(text, blocks, now0, tick) ==
    [n \in 1..Len(blocks) |-> email_data(text, blocks[n], now0 + n * tick)]

records_of(text, eb, now0, tick) ==
    [path |-> eb.path, blocks |-> eb.blocks,
     records |-> reverse(email_parts_of(text, eb.blocks, now0, tick))]

extract_email_parts(text, now0, tick) ==
    records_of(text, email_blocks(text), now0, tick)

----------------------------------------------------------------------------
(* Calls of the email parser *)

MaxLines == 3

Lines ==
    { <<"From:", "a@b.c">>, <<"To:", "x">>, <<"Subject:", "x">>,
      <<"Sent:", "x">>, <<"BCC:", "a@b.c">>, <<"x">>, <<Word200>>,
      <<Marker>>, <<"Subject:">>,
      <<"From:", "x", "To:", "x", "Subject:", "x">>, <<"To:", Word150>>,
      <<>> }

\* '\n'.join(lines)
RECURSIVE Join(_)
Join(lines) ==
    IF lines = <<>> THEN <<>>
    ELSE IF Len(lines) = 1 THEN Head(lines)
         ELSE Head(lines) \o <<"\n">> \o Join(Tail(lines))

EmailTexts == {Join(ls) : ls \in SeqsUpTo(Lines, MaxLines)}

EmailCalls ==
    {[fn |-> "is_email_correspondence", text |-> t] : t \in EmailTexts}
    \cup
    {[fn |-> "extract_email_parts", text |-> t, tick |-> k]
        : t \in EmailTexts, k \in {0, 1}}

InitEmail ==
    /\ pf_call \in EmailCalls
    /\ pf_ret = NotCalled
    /\ sp_call = IdleCall /\ sp_ret = NotCalled
    /\ AppIdle

Call_is_email_correspondence ==
    /\ pf_call \in EmailCalls /\ pf_call.fn = "is_email_correspondence"
    /\ ~pf_ret.done
    /\ pf_ret' = [done |-> TRUE, r |-> is_email_correspondence(pf_call.text)]
    /\ UNCHANGED <<pf_call, splitVars, appVars>>

Call_extract_email_parts ==
    /\ pf_call \in EmailCalls /\ pf_call.fn = "extract_email_parts"
    /\ ~pf_ret.done
    /\ pf_ret' = [done |-> TRUE,
                  r |-> extract_email_parts(pf_call.text, 0, pf_call.tick)]
    /\ UNCHANGED <<pf_call, splitVars, appVars>>

NextEmail == Call_is_email_correspondence \/ Call_extract_email_parts

SpecEmail == InitEmail /\ [][NextEmail]_vars

----------------------------------------------------------------------------
(* is_email_correspondence *)

HeaderLabels == {EMAIL_HEADER_PATTERNS[i] : i \in 1..Len(EMAIL_HEADER_PATTERNS)}

\* the header labels of the list that the text holds
LabelsHeld(text) ==
    {p \in HeaderLabels : \E k \in 1..Len(text) : p \in LabelsAt(text[k])}

\* the header labels of the list that the text holds with a value: after the
\* label comes some character that is not a newline
LabelsWithValue(text) ==
    {p \in HeaderLabels :
        \E k \in 1..Len(text) : /\ p \in LabelsAt(text[k])
                                /\ \E j \in (k + 1)..Len(text) : text[j] # "\n"}

AddressHeld(text) == \E k \in 1..Len(text) : text[k] = "a@b.c"

QuotationMarkerHeld(text) ==
    \E k \in 1..Len(text) : text[k] = Marker \/ outlook_end(text, k) > 0

IsEmailReturned == pf_ret.done /\ pf_call.fn = "is_email_correspondence"

\* C15 as stated: is_email_correspondence returns true exactly when the text
\* holds at least 3 header labels and an address, or a quotation marker.
C15_EmailIffLabelsHeld ==
    IsEmailReturned =>
        (pf_ret.r <=>
            \/ /\ Cardinality(LabelsHeld(pf_call.text)) >= HEADER_THRESHOLD
               /\ AddressHeld(pf_call.text)
            \/ QuotationMarkerHeld(pf_call.text))

\* C15: is_email_correspondence returns true exactly when at least 3 header
\* labels of the list are each followed by a value and the text holds an
\* address, or the text holds a quotation marker.
C15_EmailIffLabelsWithValue ==
    IsEmailReturned =>
        (pf_ret.r <=>
            \/ /\ Cardinality(LabelsWithValue(pf_call.text)) >= HEADER_THRESHOLD
               /\ AddressHeld(pf_call.text)
            \/ QuotationMarkerHeld(pf_call.text))

\* From: a@b.c / To: x / Subject: x is an email by its three headers
C15_Witness ==
    /\ IsEmailReturned
    /\ pf_call.text = <<"From:", "a@b.c", "\n", "To:", "x", "\n", "Subject:", "x">>
    /\ pf_ret.r = TRUE

----------------------------------------------------------------------------
(* extract_email_parts: the proximity fallback *)

ExtractReturned == pf_ret.done /\ pf_call.fn = "extract_email_parts"

\* the pieces of the text that are header labels
LabelPieces(text) == {k \in 1..Len(text) : LabelsAt(text[k]) # {}}

\* the text holds exactly 3 header labels, From:, To: and Subject: in any
\* order, and from the start of the first to the end of the last there are
\* at most 200 characters
ThreeLabelsInSpan(text) ==
    LET ks == LabelPieces(text)
    IN  /\ Cardinality(ks) = 3
        /\ {text[k] : k \in ks} = {"From:", "To:", "Subject:"}
        /\ \A i, j \in ks :
               Offset(text, j) + Chars(text[j]) - Offset(text, i) <= PROXIMITY

\* a From: label with a value whose line is followed by a line that starts
\* with To:, Sent: or Subject:
HeaderClusterHeld(text) ==
    \E i \in 1..Len(header_patterns) : search(header_patterns[i], text)

\* every label of the text is followed by a value
EveryLabelHasValue(text) ==
    \A k \in LabelPieces(text) : \E j \in (k + 1)..Len(text) : text[j] # "\n"

\* C16 as stated: a text with exactly 3 header labels From:, To:, Subject:
\* within a span of 200 characters and no quotation marker gives exactly one
\* record, found by the proximity fallback.
C16_ThreeLabelsOneRecord ==
    (/\ ExtractReturned
     /\ ThreeLabelsInSpan(pf_call.text)
     /\ ~QuotationMarkerHeld(pf_call.text)) =>
        /\ Len(pf_ret.r.records) = 1
        /\ pf_ret.r.path = "proximity"

\* C16: the same, for the texts where each of the three labels has a value
\* and no From: line is followed by a line that starts with To: or Subject:
\* (a header cluster, which is a boundary of the marker path).
C16_ThreeLabelsNoCluster ==
    (/\ ExtractReturned
     /\ ThreeLabelsInSpan(pf_call.text)
     /\ ~QuotationMarkerHeld(pf_call.text)
     /\ EveryLabelHasValue(pf_call.text)
     /\ ~HeaderClusterHeld(pf_call.text)) =>
        /\ Len(pf_ret.r.records) = 1
        /\ pf_ret.r.path = "proximity"

\* the three labels on one line, after a line of text
C16_Witness ==
    /\ ExtractReturned
    /\ pf_call.text = <<"x", "\n", "From:", "x", "To:", "x", "Subject:", "x">>
    /\ pf_ret.r.path = "proximity"
    /\ pf_ret.r.blocks = <<<<2, 21>>>>
    /\ Len(pf_ret.r.records) = 1

----------------------------------------------------------------------------
(* extract_email_parts: the order of the records *)

\* the record is built from the block: its header fields are those of the
\* block's text
BuiltFrom(rec, text, blk) ==
    /\ rec.block = blk
    /\ \A name \in {"from", "to", "subject", "date"} :
           rec[name] = header_field(name, block_text(text, blk))

----------------------------------------------------------------------------
(* extract_email_parts: slicing at the boundary markers *)

\* the distinct boundary positions of the text
BoundaryPositions(text) ==
    {marker_matches(text)[i] : i \in 1..Len(marker_matches(text))}

\* the text before the first boundary is not blank
LeadingText(text) ==
    /\ marker_matches(text) # <<>>
    /\ NonBlankSlice(text, 0, marker_matches(text)[1])

\* C18: when boundary markers exist, the blocks are one per distinct boundary
\* position plus a leading block for text before the first marker, each
\* block ends where the next one starts or before, and no stretch of the
\* text is in two blocks, also when several patterns match at one position.
C18_BlocksSliceText ==
    (ExtractReturned /\ marker_matches(pf_call.text) # <<>>) =>
        LET blocks == pf_ret.r.blocks
        IN  /\ Len(blocks) = Cardinality(BoundaryPositions(pf_call.text))
                             + (IF LeadingText(pf_call.text) THEN 1 ELSE 0)
            /\ \A i, j \in 1..Len(blocks) :
                   i < j => blocks[i][2] <= blocks[j][1]

----------------------------------------------------------------------------
(* app.py delete_document on the parts of a split document.  Each request   *)
(* runs in its own session: what it reads is the committed table at the     *)
(* moment of the query, what it writes becomes visible at its commit.  The  *)
(* requests are for parts, at most one at a time for each part.             *)

MaxParts == 3

MaxRequests == 4

ParentId == 1

\* the committed table after an upload that split a file into n parts
SplitDocs(n) ==
    [i \in 1..(n + 1) |->
        IF i = ParentId
        THEN [UserDocument("split", 0, 0, n) EXCEPT !.is_split = TRUE,
                                                    !.split_folder = TRUE]
        ELSE UserDocument("completed", ParentId, i - 1, n)]

InitDelete ==
    /\ reqs = <<>>
    /\ tasks = <<>> /\ up = UpIdle /\ resp = <<>> /\ split_failed = {}
    /\ \E n \in 2..MaxParts : docs = SplitDocs(n) /\ disk = {SplitFolder(ParentId, n)}
    /\ sp_call = IdleCall /\ sp_ret = NotCalled
    /\ pf_call = IdleCall /\ pf_ret = NotCalled

\* UserDocument.query.filter_by(parent_id=...).count()
remaining_parts_of(table, parent_id) ==
    Cardinality({i \in DOMAIN table : table[i].parent_id = parent_id})

\* line 954
last_part(remaining_parts) == remaining_parts <= 1

\* line 917: doc = db.get_or_404(UserDocument, doc_id)
D_Get(doc_id) ==
    /\ Len(reqs) < MaxRequests
    /\ doc_id \in DOMAIN docs /\ docs[doc_id].parent_id # 0
    /\ \A r \in 1..Len(reqs) :
           reqs[r].doc_id = doc_id => reqs[r].pc \in {"done", "failed"}
    /\ reqs' = Append(reqs, [doc_id |-> doc_id, pc |-> "loaded",
                             remaining_parts |-> 0, incomplete |-> FALSE])
    /\ UNCHANGED <<docs, tasks, up, resp, split_failed, disk, splitVars, procVars>>

\* lines 948-956: the part branch reads the parent and counts the parts
D_Count(r) ==
    /\ r <= Len(reqs) /\ reqs[r].pc = "loaded"
    /\ LET doc == docs[reqs[r].doc_id]
           n == remaining_parts_of(docs, doc.parent_id)
       IN  /\ ~doc.is_split /\ doc.parent_id # 0
           /\ reqs' = [reqs EXCEPT ![r].pc = "counted",
                                   ![r].remaining_parts = n,
                                   ![r].incomplete =
                                       doc.parent_id \in DOMAIN docs /\ last_part(n)]
    /\ UNCHANGED <<docs, tasks, up, resp, split_failed, disk, splitVars, procVars>>

\* lines 958-973: the file is removed, the row deleted and the session
\* committed, with the parent's new status when it was set
D_Commit(r) ==
    /\ r <= Len(reqs) /\ reqs[r].pc = "counted"
    /\ LET doc_id == reqs[r].doc_id
           parent_id == docs[doc_id].parent_id
           kept == [i \in DOMAIN docs \ {doc_id} |-> docs[i]]
       IN  docs' = IF reqs[r].incomplete /\ parent_id \in DOMAIN kept
                   THEN [kept EXCEPT ![parent_id].status = "incomplete"]
                   ELSE kept
    /\ reqs' = [reqs EXCEPT ![r].pc = "done"]
    /\ UNCHANGED <<tasks, up, resp, split_failed, disk, splitVars, procVars>>

\* lines 974-977: the commit raises, the session is rolled back
D_CommitRaise(r) ==
    /\ r <= Len(reqs) /\ reqs[r].pc = "counted"
    /\ reqs' = [reqs EXCEPT ![r].pc = "failed"]
    /\ UNCHANGED <<docs, tasks, up, resp, split_failed, disk, splitVars, procVars>>

NextDelete ==
    \/ \E doc_id \in 2..(MaxParts + 1) : D_Get(doc_id)
    \/ \E r \in 1..MaxRequests : D_Count(r)
    \/ \E r \in 1..MaxRequests : D_Commit(r)
    \/ \E r \in 1..MaxRequests : D_CommitRaise(r)

SpecDelete == InitDelete /\ [][NextDelete]_vars

\* the rows of the parts that remain
PartRows == {i \in DOMAIN docs : docs[i].parent_id = ParentId}

\* C19: once the delete_document calls on the parts, in sequence or
\* interleaved, have removed every part row, the parent's status is
\* 'incomplete'; and the status is not 'incomplete' while a part row remains.
C19_ParentIncompleteAtLastPart ==
    (ParentId \in DOMAIN docs /\ reqs # <<>>) =>
        /\ PartRows = {} => docs[ParentId].status = "incomplete"
        /\ docs[ParentId].status = "incomplete" => PartRows = {}

----------------------------------------------------------------------------
(* file_splitter.py cleanup_temp_files.  The upload folder is the sequence  *)
(* of its entries in os.listdir order.  An entry has a name, is a directory *)
(* or a file, has an age in seconds (now - mtime), can be removed or not    *)
(* (os.remove / shutil.rmtree raises), and may be taken away by someone     *)
(* else while the sweep runs: before the sweep looks at it, between the     *)
(* isdir/isfile test and getmtime, or between getmtime and the removal.     *)

MaxEntries == 2

HOUR == 3600

DEFAULT_MAX_AGE_HOURS == 24

Names == {"split_a", "temp_a", "a_part1", "split_a_part1", "a"}

startswith_split(name) == name \in {"split_a", "split_a_part1"}

startswith_temp(name) == name = "temp_a"

contains_part(name) == name \in {"a_part1", "split_a_part1"}

Ages == {0, DEFAULT_MAX_AGE_HOURS * HOUR, DEFAULT_MAX_AGE_HOURS * HOUR + 1}

Entries ==
    [name : Names, is_dir : BOOLEAN, age : Ages, removable : BOOLEAN,
     gone : {"no", "before test", "before getmtime", "before removal"}]

\* the names of a folder are distinct
Folders ==
    {its \in SeqsUpTo(Entries, MaxEntries) :
        \A i, j \in 1..Len(its) : i # j => its[i].name # its[j].name}

\* a folder that does not exist has no entries
CleanupCalls ==
    {[fn |-> "cleanup_temp_files", exists |-> TRUE, items |-> its,
      max_age_hours |-> DEFAULT_MAX_AGE_HOURS] : its \in Folders}
    \cup
    {[fn |-> "cleanup_temp_files", exists |-> FALSE, items |-> <<>>,
      max_age_hours |-> DEFAULT_MAX_AGE_HOURS]}

\* lines 344 and 357: the branch an item takes
is_split_dir(item) ==
    item.gone # "before test" /\ item.is_dir /\ startswith_split(item.name)

is_temp_file(item) ==
    /\ item.gone # "before test" /\ ~item.is_dir
    /\ startswith_temp(item.name) \/ contains_part(item.name)

\* lines 341-367, one item of the loop: "abort" when getmtime raises (the
\* exception leaves the loop for the handler of line 368), "removed" when
\* rmtree / os.remove succeeds, "kept" otherwise
sweep_item(item, max_age_seconds) ==
    IF is_split_dir(item) \/ is_temp_file(item)
    THEN IF item.gone = "before getmtime" THEN "abort"
         ELSE IF item.age > max_age_seconds
              THEN IF item.gone = "no" /\ item.removable THEN "removed"
                   ELSE "kept"
              ELSE "kept"
    ELSE "kept"

\* the loop of line 340 from item i on: the numbers of the items removed
RECURSIVE sweep(_, _, _)
sweep(items, i, max_age_seconds) ==
    IF i > Len(items) THEN {}
    ELSE LET outcome == sweep_item(items[i], max_age_seconds)
         IN  IF outcome = "abort" THEN {}
             ELSE (IF outcome = "removed" THEN {i} ELSE {})
                  \cup sweep(items, i + 1, max_age_seconds)

\* cleanup_temp_files(upload_folder, max_age_hours): os.listdir raises for a
\* folder that does not exist, and line 368 catches it
cleanup_temp_files(exists, items, max_age_hours) ==
    [raised |-> FALSE,
     removed |-> IF exists THEN sweep(items, 1, max_age_hours * HOUR) ELSE {}]

\* the items in the folder after the sweep: those neither removed by it nor
\* taken away by someone else; nobody touches them any more
left_after(items, removed) ==
    LET keep == SelectSeq([i \in 1..Len(items) |-> i],
                    LAMBDA i : i \notin removed /\ items[i].gone = "no")
    IN  [j \in 1..Len(keep) |-> items[keep[j]]]

InitCleanup ==
    /\ sp_call \in CleanupCalls
    /\ sp_ret = NotCalled
    /\ pf_call = IdleCall /\ pf_ret = NotCalled
    /\ AppIdle

Call_cleanup_temp_files ==
    /\ sp_call.fn = "cleanup_temp_files" /\ ~sp_ret.done
    /\ sp_ret' = [done |-> TRUE, again |-> FALSE,
                  r |-> cleanup_temp_files(sp_call.exists, sp_call.items,
                                           sp_call.max_age_hours)]
    /\ UNCHANGED <<sp_call, procVars, appVars>>

\* the second run, at the same clock reading, on what the first run left
Call_cleanup_temp_files_again ==
    /\ sp_call.fn = "cleanup_temp_files" /\ sp_ret.done /\ ~sp_ret.again
    /\ sp_ret' = [done |-> TRUE, again |-> TRUE, r |-> sp_ret.r,
                  r2 |-> cleanup_temp_files(sp_call.exists,
                             left_after(sp_call.items, sp_ret.r.removed),
                             sp_call.max_age_hours)]
    /\ UNCHANGED <<sp_call, procVars, appVars>>

NextCleanup == Call_cleanup_temp_files \/ Call_cleanup_temp_files_again

SpecCleanup == InitCleanup /\ [][NextCleanup]_vars

\* the entry is one the sweep is to remove: older than the threshold, and a
\* split_ directory or a temp_ / _part file
Eligible(item, max_age_hours) ==
    /\ item.age > max_age_hours * HOUR
    /\ \/ item.is_dir /\ startswith_split(item.name)
       \/ ~item.is_dir /\ (startswith_temp(item.name) \/ contains_part(item.name))

\* C20: cleanup_temp_files does not raise; of the entries that nobody else
\* takes away and whose removal the system allows it removes exactly those
\* older than the threshold that are a split_ directory or a temp_ / _part
\* file, and it touches no other entry; a second run removes nothing more.
C20_SweepRemovesExactlyEligible ==
    (sp_call.fn = "cleanup_temp_files" /\ sp_ret.done) =>
        /\ ~sp_ret.r.raised
        /\ \A i \in 1..Len(sp_call.items) :
               (sp_call.exists /\ sp_call.items[i].gone = "no"
                               /\ sp_call.items[i].removable) =>
                   (i \in sp_ret.r.removed
                       <=> Eligible(sp_call.items[i], sp_call.max_age_hours))
        /\ \A i \in sp_ret.r.removed :
               Eligible(sp_call.items[i], sp_call.max_age_hours)
        /\ sp_ret.again => ~sp_ret.r2.raised /\ sp_ret.r2.removed = {}

----------------------------------------------------------------------------
(* C21.  upload_files asks should_split_file, whose first test is the size *)
(* against MAX_FILE_SIZE_MB, and never looks at the ceiling of             *)
(* process_file.                                                           *)

\* the file the upload handler holds is over the ceiling of process_file
OverCeiling(f) == f.size > MAX_FILE_SIZE_PROCESS_MB * MB

\* the rows that are parts of the document
PartRowsOf(doc_id) == {d \in DOMAIN docs : docs[d].parent_id = doc_id}

\* C21: a file over the 50 MB ceiling is never split: no part file and no
\* part row is made for it and its row is never marked as split.
C21_OverCeilingNeverSplit ==
    (up.pc # "idle" \/ up.n > 0) /\ OverCeiling(up.file) =>
        /\ up.parts = <<>> /\ up.part_ids = <<>>
        /\ PartRowsOf(up.doc_id) = {}
        /\ ~docs[up.doc_id].is_split

----------------------------------------------------------------------------
(* C22, C23.  The PDF branch of process_file without page text, and the    *)
(* runs whose AI call fails or is skipped.                                 *)

\* process_file has run on a present file within the ceiling
ProcessedWithinCeiling ==
    /\ pf_ret.done
    /\ pf_call.is_file /\ pf_call.size <= MAX_FILE_SIZE_PROCESS_MB * MB

\* a PDF that PyPDF2 reads and whose pages give no text (and no note about
\* pages beyond the cap), with the OCR libraries missing
PdfNoTextNoOcr ==
    /\ ProcessedWithinCeiling
    /\ pf_call.suffix = ".pdf" /\ pf_call.pdf_readable
    /\ ~pf_call.pdf_text /\ pf_call.total_pages <= PDF_MAX_PAGES
    /\ ~pf_call.ocr_available

\* C22: when the PDF gives no text and OCR is unavailable, process_file
\* returns content together with an error (the warning state), never a
\* result without content.
C22_NoOcrGivesWarning ==
    PdfNoTextNoOcr => pf_ret.r.content # None /\ pf_ret.r.error # None

\* the run used an AI call, and the call was skipped for a missing key or
\* raised
AiCallFailed ==
    /\ ProcessedWithinCeiling
    /\ pf_ret.r.ai_calls > 0
    /\ (~pf_call.api_key \/ pf_call.api = "raise")

\* C23: when the AI call of a run fails or is skipped for a missing key,
\* process_file returns an error and no content.
C23_AiFailureIsError ==
    AiCallFailed => pf_ret.r.error # None /\ pf_ret.r.content = None

\* C23 for the runs whose processed content is the bare answer of the AI
\* function (every branch but the first-page fallback of the PDF branch)
C23_AiFailureIsErrorOutsidePdfFallback ==
    AiCallFailed /\ ~(pf_call.suffix = ".pdf" /\ pf_ret.r.email_checks = 0) =>
        pf_ret.r.error # None /\ pf_ret.r.content = None

----------------------------------------------------------------------------
(* parse_json_file (convertor/core.py).  The file is a sequence of pieces: *)
(* the punctuation of JSON, the number 1, the string "k", the literal NaN  *)
(* and the newline; a zero-length file is the empty sequence.  json.load   *)
(* is the decoder of the standard library: it skips whitespace, accepts    *)
(* NaN as a number, and reports the first piece that cannot continue a     *)
(* document (or the end of the text) as line and column.                   *)

JsonPieces == {"{", "}", "[", "]", ",", ":", "1", "\"k\"", "NaN", "\n"}

JsonScalars == {"1", "\"k\"", "NaN"}

\* len(piece)
JsonChars(piece) == IF piece \in {"\"k\"", "NaN"} THEN 3 ELSE 1

\* the decoder's state after a complete value
after_value(stack) ==
    IF stack = <<>> THEN "end"
    ELSE IF stack[Len(stack)] = "[" THEN "after_elem" ELSE "after_member"

pop(stack) == SubSeq(stack, 1, Len(stack) - 1)

Goto(state, stack) == [state |-> state, stack |-> stack]

\* one piece consumed by the decoder
json_step(state, stack, tok) ==
    IF state \in {"value", "first_elem"}
    THEN IF tok \in JsonScalars THEN Goto(after_value(stack), stack)
         ELSE IF tok = "[" THEN Goto("first_elem", Append(stack, "["))
         ELSE IF tok = "{" THEN Goto("first_key", Append(stack, "{"))
         ELSE IF tok = "]" /\ state = "first_elem"
         THEN Goto(after_value(pop(stack)), pop(stack))
         ELSE Goto("error", stack)
    ELSE IF state = "after_elem"
    THEN IF tok = "," THEN Goto("value", stack)
         ELSE IF tok = "]" THEN Goto(after_value(pop(stack)), pop(stack))
         ELSE Goto("error", stack)
    ELSE IF state \in {"first_key", "key"}
    THEN IF tok = "\"k\"" THEN Goto("colon", stack)
         ELSE IF tok = "}" /\ state = "first_key"
         THEN Goto(after_value(pop(stack)), pop(stack))
         ELSE Goto("error", stack)
    ELSE IF state = "colon"
    THEN IF tok = ":" THEN Goto("value", stack) ELSE Goto("error", stack)
    ELSE IF state = "after_member"
    THEN IF tok = "," THEN Goto("key", stack)
         ELSE IF tok = "}" THEN Goto(after_value(pop(stack)), pop(stack))
         ELSE Goto("error", stack)
    ELSE Goto("error", stack)

\* the piece goes on with the number of the piece before it
MoreDigits(doc, i) == i > 1 /\ doc[i] = "1" /\ doc[i - 1] = "1"

RECURSIVE json_scan(_, _, _, _)
\* the piece at which json.load fails, Len + 1 for the end of the text, 0
\* when the text decodes
json_scan(doc, i, state, stack) ==
    IF i > Len(doc) THEN (IF state = "end" THEN 0 ELSE i)
    ELSE IF doc[i] = "\n" \/ MoreDigits(doc, i)
    THEN json_scan(doc, i + 1, state, stack)
    ELSE IF json_step(state, stack, doc[i]).state = "error" THEN i
    ELSE json_scan(doc, i + 1, json_step(state, stack, doc[i]).state,
                   json_step(state, stack, doc[i]).stack)

\* JSONDecodeError.lineno, .colno of the piece at index pos
lineno_of(doc, pos) ==
    1 + Cardinality({j \in 1..(pos - 1) : doc[j] = "\n"})

RECURSIVE colno_of(_, _)
colno_of(doc, pos) ==
    IF pos = 1 \/ doc[pos - 1] = "\n" THEN 1
    ELSE colno_of(doc, pos - 1) + JsonChars(doc[pos - 1])

\* the decoded value: what kind of data it is
data_kind(tokens) ==
    IF tokens[1] = "{" THEN (IF tokens[2] = "}" THEN "empty dict" ELSE "dict")
    ELSE IF tokens[1] = "[" THEN (IF tokens[2] = "]" THEN "empty list" ELSE "list")
    ELSE "scalar"

\* "at line {e.lineno}, column {e.colno}"
InvalidJsonMessage(lineno, colno) ==
    <<[t |-> "Invalid JSON format in file", a |-> lineno, b |-> colno]>>

\* lines 758-843: the text for the decoded data
json_text(kind) ==
    IF kind = "empty dict" THEN Str("JSON file contains empty object {}")
    ELSE IF kind = "empty list" THEN Str("JSON file contains empty array []")
    ELSE IF kind = "list" THEN Str("JSON File Content (Array)")
    ELSE Str("JSON File Content (Object)")

\* json.load and what follows it, with the piece the decoder failed at
json_loaded(doc, failed_at) ==
    IF failed_at # 0
    THEN [exc |-> "ValueError",
          text |-> InvalidJsonMessage(lineno_of(doc, failed_at),
                                      colno_of(doc, failed_at))]
    ELSE [exc |-> "none",
          text |-> json_text(data_kind(SelectSeq(doc, LAMBDA t : t # "\n")))]

parse_json_file(doc) ==
    IF doc = <<>>   \* os.path.getsize(file_path) == 0
    THEN [exc |-> "none", text |-> Str("Empty JSON file")]
    ELSE json_loaded(doc, json_scan(doc, 1, "value", <<>>))

\* process_file on the .json file: parse_json_file is the extractor
json_input(doc, api_key, api) ==
    [BaseInput EXCEPT !.suffix = ".json",
                      !.parse = IF parse_json_file(doc).exc = "none" THEN "text"
                                ELSE "raise",
                      !.api_key = api_key, !.api = api]

----------------------------------------------------------------------------
(* parse_json_file and process_file applied to bounded .json files *)

MaxJsonLen == 4

\* documents longer than the bound: an object, an object cut short, an
\* object over several lines
JsonSamples ==
    {<<"{", "\"k\"", ":", "1", "}">>,
     <<"{", "\"k\"", ":", "1", ",">>,
     <<"{", "\n", "\"k\"", ":", "1", "\n", "}">>,
     <<"{", "\n", "\"k\"", ":", "1", ",", "\n", "}">>,
     <<"[", "{", "\"k\"", ":", "NaN", "}", "]">>}

JsonDocs == SeqsUpTo(JsonPieces, MaxJsonLen) \cup JsonSamples

JsonCalls ==
    {[fn |-> "parse_json_file", doc |-> d] : d \in JsonDocs}
    \cup
    {[fn |-> "process_file", doc |-> d, api_key |-> k, api |-> "text"]
        : d \in JsonDocs, k \in BOOLEAN}

InitJson ==
    /\ pf_call \in JsonCalls
    /\ pf_ret = NotCalled
    /\ sp_call = IdleCall /\ sp_ret = NotCalled
    /\ AppIdle

Call_parse_json_file ==
    /\ pf_call.fn = "parse_json_file" /\ ~pf_ret.done
    /\ pf_ret' = [done |-> TRUE, r |-> parse_json_file(pf_call.doc)]
    /\ UNCHANGED <<pf_call, splitVars, appVars>>

Call_process_file_json ==
    /\ pf_call.fn = "process_file" /\ ~pf_ret.done
    /\ pf_ret' = [done |-> TRUE,
                  r |-> process_file(json_input(pf_call.doc, pf_call.api_key,
                                                pf_call.api))]
    /\ UNCHANGED <<pf_call, splitVars, appVars>>

NextJson == Call_parse_json_file \/ Call_process_file_json

SpecJson == InitJson /\ [][NextJson]_vars

----------------------------------------------------------------------------
(* C24.  The grammar of JSON (RFC 8259) over the pieces, written without   *)
(* the decoder: a value is a number, a string, an array of values or an    *)
(* object of members.                                                      *)

RECURSIVE IsValue(_), IsItems(_, _), IsItem(_, _)
IsValue(t) ==
    \/ t \in {<<"1">>, <<"\"k\"">>}
    \/ /\ Len(t) >= 2
       /\ \/ t[1] = "[" /\ t[Len(t)] = "]"
             /\ (Len(t) = 2 \/ IsItems(SubSeq(t, 2, Len(t) - 1), "element"))
          \/ t[1] = "{" /\ t[Len(t)] = "}"
             /\ (Len(t) = 2 \/ IsItems(SubSeq(t, 2, Len(t) - 1), "member"))

IsItems(t, kind) ==
    \/ IsItem(t, kind)
    \/ \E i \in 2..(Len(t) - 1) :
          /\ t[i] = ","
          /\ IsItem(SubSeq(t, 1, i - 1), kind)
          /\ IsItems(SubSeq(t, i + 1, Len(t)), kind)

IsItem(t, kind) ==
    IF kind = "element" THEN t # <<>> /\ IsValue(t)
    ELSE /\ Len(t) >= 3 /\ t[1] = "\"k\"" /\ t[2] = ":"
         /\ IsValue(SubSeq(t, 3, Len(t)))

\* the tokens of the text: digits in a row are one number, newlines are
\* whitespace
Tokens(doc) ==
    LET keep == SelectSeq([j \in DOMAIN doc |-> j],
                          LAMBDA j : /\ doc[j] # "\n"
                                     /\ ~(j > 1 /\ doc[j] = "1" /\ doc[j - 1] = "1"))
    IN  [n \in DOMAIN keep |-> doc[keep[n]]]

\* the text is a JSON document
ValidJson(doc) == IsValue(Tokens(doc))

\* the message names a line and a column of the text
NamesLineAndColumn(text, doc) ==
    /\ Len(text) = 1
    /\ text[1].a \in 1..(1 + Cardinality({j \in DOMAIN doc : doc[j] = "\n"}))
    /\ text[1].b >= 1

\* C24: for every .json file that is not valid JSON (the zero-length file
\* included) parse_json_file raises ValueError with the line and the column
\* in its message, and process_file returns an error and no content.
C24_InvalidJsonIsError ==
    (pf_ret.done /\ pf_call.fn \in {"parse_json_file", "process_file"}
                 /\ ~ValidJson(pf_call.doc)) =>
        IF pf_call.fn = "parse_json_file"
        THEN /\ pf_ret.r.exc = "ValueError"
             /\ NamesLineAndColumn(pf_ret.r.text, pf_call.doc)
        ELSE pf_ret.r.error # None /\ pf_ret.r.content = None

\* C24 for the files that hold at least one byte and no NaN, Infinity or
\* -Infinity literal
C24_InvalidNonEmptyJsonIsError ==
    (pf_ret.done /\ pf_call.fn \in {"parse_json_file", "process_file"}
                 /\ ~ValidJson(pf_call.doc)
                 /\ pf_call.doc # <<>>
                 /\ \A j \in DOMAIN pf_call.doc : pf_call.doc[j] # "NaN") =>
        IF pf_call.fn = "parse_json_file"
        THEN /\ pf_ret.r.exc = "ValueError"
             /\ NamesLineAndColumn(pf_ret.r.text, pf_call.doc)
        ELSE pf_ret.r.error # None /\ pf_ret.r.content = None

\* an object cut short on its second line
C24_Witness ==
    /\ pf_ret.done /\ pf_call.fn = "parse_json_file"
    /\ pf_call.doc = <<"{", "\n", "\"k\"", ":">>
    /\ pf_ret.r = [exc |-> "ValueError", text |-> InvalidJsonMessage(2, 5)]

----------------------------------------------------------------------------
(* parse_csv_file (convertor/core.py).  The file is what its collaborators *)
(* answer: the encodings its bytes decode in, the separators pandas parses *)
(* it with, and what csv.Sniffer finds in the sample.                      *)

encodings == <<"utf-8", "latin1", "iso-8859-1", "cp1252">>

fixed_delimiters == <<",", ";", "\t", "|">>

Attempt(encoding, sep, how) == [encoding |-> encoding, sep |-> sep, how |-> how]

\* pd.read_csv(file_path, sep=sep, encoding=encoding)
read_csv(f, encoding, sep) ==
    IF f.kind = "no data" THEN "EmptyDataError"
    ELSE IF encoding \notin f.decodable THEN "UnicodeDecodeError"
    ELSE IF sep \in f.parses THEN "ok"
    ELSE "ParserError"

RECURSIVE try_delimiters(_, _, _, _)
\* "for delimiter in [',', ';', '\t', '|']", bare except: continue
try_delimiters(f, encoding, i, tried) ==
    IF i > Len(fixed_delimiters) THEN [df |-> FALSE, tried |-> tried]
    ELSE IF read_csv(f, encoding, fixed_delimiters[i]) = "ok"
    THEN [df |-> TRUE,
          tried |-> Append(tried, Attempt(encoding, fixed_delimiters[i], "fixed"))]
    ELSE try_delimiters(f, encoding, i + 1,
             Append(tried, Attempt(encoding, fixed_delimiters[i], "fixed")))

Tried(df, tried, error) == [df |-> df, tried |-> tried, error |-> error]

\* "except pd.errors.ParserError": the sniffed delimiter; an exception of
\* the parse with it is not a csv.Error and goes to "except Exception as e"
sniffed_parse(f, encoding, tried) ==
    IF f.sniff = "csv.Error"
    THEN Tried(try_delimiters(f, encoding, 1, tried).df,
               try_delimiters(f, encoding, 1, tried).tried, FALSE)
    ELSE Tried(read_csv(f, encoding, f.sniff) = "ok",
               Append(tried, Attempt(encoding, f.sniff, "sniffed")),
               read_csv(f, encoding, f.sniff) # "ok")

\* one turn of "for encoding in encodings"
try_encoding(f, encoding, tried, default) ==
    IF default = "ok" THEN Tried(TRUE, tried, FALSE)
    ELSE IF default = "UnicodeDecodeError" THEN Tried(FALSE, tried, FALSE)
    ELSE IF default = "ParserError" THEN sniffed_parse(f, encoding, tried)
    ELSE Tried(FALSE, tried, TRUE)

RECURSIVE encoding_loop(_, _, _, _), csv_next(_, _, _, _)
encoding_loop(f, i, tried, last_error) ==
    IF i > Len(encodings) THEN Tried(FALSE, tried, last_error)
    ELSE csv_next(f, i, last_error,
             try_encoding(f, encodings[i],
                 Append(tried, Attempt(encodings[i], ",", "default")),
                 read_csv(f, encodings[i], ",")))

\* break when df is set, else the next encoding
csv_next(f, i, last_error, t) ==
    IF t.df THEN Tried(TRUE, t.tried, last_error)
    ELSE encoding_loop(f, i + 1, t.tried, last_error \/ t.error)

csv_result(t) ==
    IF ~t.df
    THEN [exc |-> "ValueError", tried |-> t.tried,
          text |-> IF t.error THEN Str("Failed to parse CSV file: last_error")
                   ELSE Str("Failed to parse CSV file: Unknown error")]
    ELSE [exc |-> "none", tried |-> t.tried, text |-> Str("CSV File Content")]

parse_csv_file(f) ==
    IF f.kind = "zero length"
    THEN [exc |-> "none", tried |-> <<>>, text |-> Str("Empty CSV file")]
    ELSE csv_result(encoding_loop(f, 1, <<>>, FALSE))

----------------------------------------------------------------------------
(* parse_csv_file applied to bounded files *)

Separators == {",", ";", "\t", "|", " "}

CsvFiles ==
    {[kind |-> k, decodable |-> {}, parses |-> {}, sniff |-> "csv.Error"]
        : k \in {"zero length", "no data"}}
    \cup
    {[kind |-> "table", decodable |-> {"latin1", "iso-8859-1"} \cup d,
      parses |-> p, sniff |-> s]
        : d \in SUBSET {"utf-8", "cp1252"}, p \in SUBSET Separators,
          s \in Separators \cup {"csv.Error"}}

InitCsv ==
    /\ pf_call \in {[fn |-> "parse_csv_file", file |-> f] : f \in CsvFiles}
    /\ pf_ret = NotCalled
    /\ sp_call = IdleCall /\ sp_ret = NotCalled
    /\ AppIdle

Call_parse_csv_file ==
    /\ pf_call.fn = "parse_csv_file" /\ ~pf_ret.done
    /\ pf_ret' = [done |-> TRUE, r |-> parse_csv_file(pf_call.file)]
    /\ UNCHANGED <<pf_call, splitVars, appVars>>

NextCsv == Call_parse_csv_file

SpecCsv == InitCsv /\ [][NextCsv]_vars

----------------------------------------------------------------------------
(* C25 *)

Range(seq) == {seq[i] : i \in DOMAIN seq}

IndexIn(seq, x) == CHOOSE i \in DOMAIN seq : seq[i] = x

HowRank(how) == IF how = "default" THEN 1 ELSE IF how = "sniffed" THEN 2 ELSE 3

\* attempt a comes before attempt b in the order of the claim
InOrder(a, b) ==
    \/ IndexIn(encodings, a.encoding) < IndexIn(encodings, b.encoding)
    \/ /\ a.encoding = b.encoding
       /\ \/ HowRank(a.how) < HowRank(b.how)
          \/ /\ a.how = "fixed" /\ b.how = "fixed"
             /\ IndexIn(fixed_delimiters, a.sep) < IndexIn(fixed_delimiters, b.sep)

\* every combination of the claim: the default parse, the sniffed
\* delimiter when the sniffer finds one, each fixed delimiter
Combinations(f) ==
    {Attempt(e, ",", "default") : e \in Range(encodings)}
    \cup {Attempt(e, f.sniff, "sniffed") : e \in {x \in Range(encodings) :
                                                     f.sniff # "csv.Error"}}
    \cup {Attempt(e, d, "fixed") : e \in Range(encodings), d \in Range(fixed_delimiters)}

Parses(f, a) == read_csv(f, a.encoding, a.sep) = "ok"

CsvReturned == pf_ret.done /\ pf_call.fn = "parse_csv_file"
                           /\ pf_call.file.kind # "zero length"

\* C25: parse_csv_file tries, encoding by encoding, the default parse, the
\* parse with the sniffed delimiter and the parses with the fixed
\* delimiters, in this order; it stops at the first that parses; when the
\* default parse and the sniffed parse of an encoding fail, the fixed
\* delimiters are tried for it; it fails only when no combination parses.
C25_CsvTriesEveryCombination ==
    CsvReturned =>
        LET f == pf_call.file
            tried == pf_ret.r.tried
        IN  /\ \A i, j \in DOMAIN tried : i < j => InOrder(tried[i], tried[j])
            /\ \A i \in DOMAIN tried :
                   Parses(f, tried[i]) <=> (pf_ret.r.exc = "none" /\ i = Len(tried))
            /\ \A i \in DOMAIN tried :
                   (/\ tried[i].how = "default"
                    /\ read_csv(f, tried[i].encoding, ",") = "ParserError"
                    /\ (f.sniff = "csv.Error"
                           \/ read_csv(f, tried[i].encoding, f.sniff) # "ok")) =>
                       \E j \in DOMAIN tried : /\ tried[j].encoding = tried[i].encoding
                                               /\ tried[j].how = "fixed"
            /\ pf_ret.r.exc = "ValueError" => \A a \in Combinations(f) : ~Parses(f, a)

----------------------------------------------------------------------------
(* C26.  The second with-block of process_file_async. *)

\* work item i commits the result of process_file in this step
Commits(i) ==
    /\ i \in DOMAIN tasks /\ tasks[i].pc = "process"
    /\ tasks[i].doc_id \in DOMAIN docs
    /\ tasks'[i].pc \in {"done", "handler"} /\ tasks'[i].raised # "finish"

\* C26: the committed status is error iff the result has an error and no
\* content, warning iff it has both, completed iff it has no error;
\* processed_content is written in the warning and completed cases only,
\* error_message in the error and warning cases only.
C26_ResultToStatus ==
    [][\A i \in TaskIds :
          Commits(i) =>
              LET r == tasks'[i].result
                  old == docs[tasks[i].doc_id]
                  new == docs'[tasks[i].doc_id]
              IN  /\ new.status = "error" <=> (r.error /\ ~r.content)
                  /\ new.status = "warning" <=> (r.error /\ r.content)
                  /\ new.status = "completed" <=> ~r.error
                  /\ new.processed_content <=> new.status \in {"warning", "completed"}
                  /\ new.status = "error" =>
                         new.processed_content = old.processed_content
                  /\ IF new.status \in {"error", "warning"}
                     THEN new.error_message = "process"
                     ELSE new.error_message = old.error_message]_vars

\* a work item has committed a result with content and error as 'warning'
C26_Witness ==
    \E i \in DOMAIN tasks :
        /\ tasks[i].pc = "done"
        /\ tasks[i].result = [content |-> TRUE, error |-> TRUE]
        /\ docs[tasks[i].doc_id].status = "warning"
        /\ docs[tasks[i].doc_id].processed_content
        /\ docs[tasks[i].doc_id].error_message = "process"

----------------------------------------------------------------------------
(* get_ai_summary (convertor/core.py), step by step: the test of the key,  *)
(* the attempts of model.generate_content, the sleeps between them, and    *)
(* the answer.  An attempt succeeds, fails with a transient error (the     *)
(* service cannot be reached, rate limit) or fails with a content error    *)
(* (the request is refused for what it holds); response.text is a text,    *)
(* is empty, or raises ValueError when the answer was blocked.             *)

max_retries == 2

INITIAL_RETRY_DELAY == 2

AttemptOutcomes == {"ok", "transient error", "content error"}

SummaryCalls ==
    {[fn |-> "get_ai_summary", api_key |-> k, outcomes |-> o, text |-> t,
      truncated |-> tr]
        : k \in BOOLEAN, o \in [1..(max_retries + 1) -> AttemptOutcomes],
          t \in {"text", "empty", "raises"}, tr \in BOOLEAN}

InitSummary ==
    /\ pf_call \in SummaryCalls
    /\ pf_ret = NotCalled
    /\ sp_call = IdleCall /\ sp_ret = NotCalled
    /\ AppIdle

Returns(st, r) ==
    [done |-> TRUE, pc |-> "returned", attempt |-> st.attempt,
     retry_delay |-> st.retry_delay, calls |-> st.calls, sleeps |-> st.sleeps,
     r |-> r]

\* lines 1262-1308
S_Enter ==
    /\ pf_call.fn = "get_ai_summary" /\ pf_ret = NotCalled
    /\ LET st == [done |-> FALSE, pc |-> "call", attempt |-> 0,
                  retry_delay |-> INITIAL_RETRY_DELAY, calls |-> <<>>,
                  sleeps |-> <<>>, r |-> None]
       IN  pf_ret' = IF ~pf_call.api_key THEN Returns(st, AiSkipped) ELSE st
    /\ UNCHANGED <<pf_call, splitVars, appVars>>

\* lines 1311-1322: one attempt; the last failure is re-raised and caught
\* at line 1336
S_Attempt ==
    /\ pf_call.fn = "get_ai_summary" /\ ~pf_ret.done /\ pf_ret # NotCalled
    /\ pf_ret.pc = "call"
    /\ LET outcome == pf_call.outcomes[pf_ret.attempt + 1]
           st == [pf_ret EXCEPT !.calls = Append(@, outcome)]
       IN  pf_ret' = IF outcome = "ok" THEN [st EXCEPT !.pc = "respond"]
                     ELSE IF pf_ret.attempt < max_retries
                     THEN [st EXCEPT !.pc = "sleep"]
                     ELSE Returns(st, AiError)
    /\ UNCHANGED <<pf_call, splitVars, appVars>>

\* lines 1318-1319 and the next turn of the loop
S_Sleep ==
    /\ pf_call.fn = "get_ai_summary" /\ ~pf_ret.done /\ pf_ret # NotCalled
    /\ pf_ret.pc = "sleep"
    /\ pf_ret' = [pf_ret EXCEPT !.sleeps = Append(@, pf_ret.retry_delay),
                                !.retry_delay = 2 * @,
                                !.attempt = @ + 1,
                                !.pc = "call"]
    /\ UNCHANGED <<pf_call, splitVars, appVars>>

\* lines 1324-1339
S_Respond ==
    /\ pf_call.fn = "get_ai_summary" /\ ~pf_ret.done /\ pf_ret # NotCalled
    /\ pf_ret.pc = "respond"
    /\ pf_ret' = Returns(pf_ret,
                    IF pf_call.text = "raises" THEN AiError
                    ELSE IF pf_call.text = "empty" THEN AiPlaceholder
                    ELSE IF pf_call.truncated
                    THEN Str("[Poznamka: Puvodni dokument byl prilis dlouhy]") \o AiText
                    ELSE AiText)
    /\ UNCHANGED <<pf_call, splitVars, appVars>>

NextSummary == S_Enter \/ S_Attempt \/ S_Sleep \/ S_Respond

SpecSummary == InitSummary /\ [][NextSummary]_vars

\* get_ai_summary is running or has returned
SummaryEntered == pf_call.fn = "get_ai_summary" /\ pf_ret # NotCalled

\* C27: get_ai_summary makes at most 3 attempts and none after a success,
\* sleeps 2 s before the second and 4 s before the third attempt, returns
\* an '[AI ... Error' string after the last failed attempt, and does not
\* retry after a content error.
C27_BoundedRetryTransientOnly ==
    SummaryEntered =>
        /\ Len(pf_ret.calls) <= 3
        /\ \A i \in 1..(Len(pf_ret.calls) - 1) : pf_ret.calls[i] # "ok"
        /\ Len(pf_ret.sleeps) \in {Len(pf_ret.calls) - 1, Len(pf_ret.calls)}
        /\ \A j \in DOMAIN pf_ret.sleeps : pf_ret.sleeps[j] = 2 ^ j
        /\ \A i \in 1..(Len(pf_ret.calls) - 1) : pf_ret.calls[i] # "content error"
        /\ (pf_ret.done /\ Len(pf_ret.calls) = 3 /\ pf_ret.calls[3] # "ok") =>
               pf_ret.r = AiError

\* C27 without the clause on content errors, and with the sleeps counted
\* while an attempt is under way
C27_BoundedRetry ==
    SummaryEntered =>
        /\ Len(pf_ret.calls) <= 3
        /\ \A i \in 1..(Len(pf_ret.calls) - 1) : pf_ret.calls[i] # "ok"
        /\ Len(pf_ret.sleeps) \in {Len(pf_ret.calls) - 1, Len(pf_ret.calls)}
        /\ pf_ret.pc = "sleep" <=> (Len(pf_ret.sleeps) = Len(pf_ret.calls) - 1
                                       /\ ~pf_ret.done /\ pf_ret.calls # <<>>
                                       /\ pf_ret.calls[Len(pf_ret.calls)] # "ok")
        /\ \A j \in DOMAIN pf_ret.sleeps : pf_ret.sleeps[j] = 2 ^ j
        /\ (pf_ret.done /\ Len(pf_ret.calls) = 3 /\ pf_ret.calls[3] # "ok") =>
               pf_ret.r = AiError

----------------------------------------------------------------------------
(* extract_email_parts: a group of close labels in the proximity fallback *)

\* the pieces of the text that the fallback counts as labels: From:, To:,
\* Subject: and Sent: with a value after them
FallbackLabels(text) ==
    {k \in 1..Len(text) : /\ text[k] \in {"From:", "To:", "Subject:", "Sent:"}
                          /\ \E j \in (k + 1)..Len(text) : text[j] # "\n"}

\* the labels of the text are one group of 3 or more: each label starts
\* less than 200 characters after the one before it, and the text holds no
\* header label outside the group
SingleCloseGroup(text) ==
    LET ks == FallbackLabels(text)
    IN  /\ Cardinality(ks) >= 3
        /\ LabelPieces(text) = ks
        /\ \A i, j \in ks :
               (i < j /\ ~\E m \in ks : i < m /\ m < j) =>
                   Offset(text, j) - Offset(text, i) < PROXIMITY

\* three labels of the text start within a span under 200 characters
ThreeWithinSpan(text) ==
    \E i, j, m \in FallbackLabels(text) :
        /\ i < j /\ j < m
        /\ Offset(text, m) - Offset(text, i) < PROXIMITY

FallbackTaken == pf_ret.r.path \in {"proximity", "proximity: no start"}

\* C28 as stated: on the fallback path a text holding a single group of
\* k >= 3 close header labels and no other label gives exactly one record,
\* and a start is found only when three labels lie within a span under 200
\* characters.
C28_GroupMarksOneStart ==
    (ExtractReturned /\ FallbackTaken) =>
        /\ SingleCloseGroup(pf_call.text) => Len(pf_ret.r.records) = 1
        /\ pf_ret.r.path = "proximity" => ThreeWithinSpan(pf_call.text)

\* C28, first half alone: one record for a single group of k >= 3 labels
C28_GroupGivesOneRecord ==
    (ExtractReturned /\ FallbackTaken /\ SingleCloseGroup(pf_call.text)) =>
        Len(pf_ret.r.records) = 1

\* C28, second half alone: a start only with three labels in a span under 200
C28_StartOnlyWithinSpan ==
    (ExtractReturned /\ pf_ret.r.path = "proximity") =>
        ThreeWithinSpan(pf_call.text)

\* a group of exactly 3 close labels gives one record
C28_GroupOfThreeGivesOneRecord ==
    (/\ ExtractReturned /\ FallbackTaken /\ SingleCloseGroup(pf_call.text)
     /\ Cardinality(FallbackLabels(pf_call.text)) = 3) =>
        Len(pf_ret.r.records) = 1

----------------------------------------------------------------------------
(* upload_files and split_file: the split folders left in the upload folder *)

\* the handling of the file uploaded as document doc_id has finished: its
\* entry is in uploaded_files
Handled(doc_id) == \E k \in DOMAIN resp : resp[k].doc_id = doc_id

\* the row of the document names a split folder
Referenced(doc_id) ==
    /\ doc_id \in DOMAIN docs
    /\ docs[doc_id].is_split /\ docs[doc_id].split_folder

\* C29 as stated: once the handling of an upload has finished, every split
\* folder that split_file made for it is the split_folder of a parent row
\* with is_split set (or is gone from the disk): a split that raises or
\* that gives no part leaves no folder behind.
C29_NoUnreferencedSplitFolder ==
    \A f \in disk : Handled(f.doc_id) => Referenced(f.doc_id)

\* C29 for the splits that return parts: their folder is referenced, and
\* it holds total_parts part files
C29_FolderOfPartsReferenced ==
    \A f \in disk :
        (Handled(f.doc_id) /\ f.files > 0) =>
            Referenced(f.doc_id) /\ docs[f.doc_id].total_parts = f.files

\* the folders that C29 denies: one left by a split_file call that raised
C29_FolderLeftByRaise ==
    \A f \in disk : Handled(f.doc_id) => f.doc_id \notin split_failed

\* and one left by a split that returned no part
C29_FolderLeftByEmptySplit ==
    \A f \in disk :
        Handled(f.doc_id) => (f.doc_id \in split_failed \/ f.files > 0)

----------------------------------------------------------------------------
(* app.py: delete_document while the document's work item is queued or     *)
(* running.  The table is the SQLite table of the default DATABASE_URL: the *)
(* id column is INTEGER PRIMARY KEY without AUTOINCREMENT, so an insert     *)
(* takes the largest id in use plus one, and the id of a deleted last row   *)
(* is given out again.  The files uploaded are those that are not split.    *)

MaxDeletes == 2

\* id = db.Column(db.Integer, primary_key=True): the id of the next insert
new_id(table) ==
    IF DOMAIN table = {} THEN 1
    ELSE 1 + CHOOSE m \in DOMAIN table : \A k \in DOMAIN table : k <= m

\* db.session.add(row); db.session.commit()
insert(table, row) ==
    [k \in DOMAIN table \cup {new_id(table)} |->
        IF k \in DOMAIN table THEN table[k] ELSE row]

UnsplitFiles == {f \in UploadFiles : ~should_split_file(f).split}

\* upload_files, one file of the loop: the initial row, status 'saving'
X_Create ==
    /\ up.pc = "idle" /\ up.n < MaxFiles
    /\ \E f \in UnsplitFiles :
          /\ docs' = insert(docs, UserDocument("saving", 0, 0, 0))
          /\ up' = [UpIdle EXCEPT !.pc = "save", !.n = up.n + 1, !.file = f,
                                  !.doc_id = new_id(docs)]
    /\ UNCHANGED <<tasks, resp, split_failed, disk, reqs, splitVars, procVars>>

\* the work items of the document that are queued or running
ActiveTasks(doc_id) ==
    {i \in DOMAIN tasks : tasks[i].doc_id = doc_id /\ tasks[i].pc # "done"}

\* line 917: doc = db.get_or_404(UserDocument, doc_id), for a document that
\* is neither split nor a part and whose work item has not ended
X_Get(doc_id) ==
    /\ Len(reqs) < MaxDeletes
    /\ doc_id \in DOMAIN docs
    /\ ~docs[doc_id].is_split /\ docs[doc_id].parent_id = 0
    /\ ActiveTasks(doc_id) # {}
    /\ \A r \in 1..Len(reqs) :
           reqs[r].doc_id = doc_id => reqs[r].pc \in {"done", "failed"}
    /\ reqs' = Append(reqs, [doc_id |-> doc_id, pc |-> "loaded",
                             remaining_parts |-> 0, incomplete |-> FALSE])
    /\ UNCHANGED <<docs, tasks, up, resp, split_failed, disk, splitVars, procVars>>

\* lines 958-974: the file is removed, the row deleted, the session committed
X_Commit(r) ==
    /\ r <= Len(reqs) /\ reqs[r].pc = "loaded"
    /\ docs' = [k \in DOMAIN docs \ {reqs[r].doc_id} |-> docs[k]]
    /\ reqs' = [reqs EXCEPT ![r].pc = "done"]
    /\ UNCHANGED <<tasks, up, resp, split_failed, disk, splitVars, procVars>>

\* lines 975-978: the commit raises, the session is rolled back
X_CommitRaise(r) ==
    /\ r <= Len(reqs) /\ reqs[r].pc = "loaded"
    /\ reqs' = [reqs EXCEPT ![r].pc = "failed"]
    /\ UNCHANGED <<docs, tasks, up, resp, split_failed, disk, splitVars, procVars>>

NextRace ==
    \/ X_Create \/ U_Save \/ U_SaveRaise \/ U_Error
    \/ \E i \in 1..MaxFiles :
          W_Start(i) \/ W_StartRaise(i) \/ W_Finish(i) \/ W_FinishRaise(i)
              \/ W_Error(i)
    \/ \E doc_id \in 1..MaxFiles : X_Get(doc_id)
    \/ \E r \in 1..MaxDeletes : X_Commit(r)
    \/ \E r \in 1..MaxDeletes : X_CommitRaise(r)

SpecRace == InitApp /\ [][NextRace]_vars

\* a step of the work item i
WorkerStep(i) == i \in DOMAIN tasks /\ tasks'[i] # tasks[i]

\* the entry of uploaded_files that was written with the work item i: the
\* i-th entry with status 'pending'
EntryOf(i) ==
    CHOOSE k \in DOMAIN resp :
        /\ resp[k].status = "pending"
        /\ Cardinality({j \in 1..k : resp[j].status = "pending"}) = i

\* the id of the work item's document is now the id of a later upload
Superseded(i) ==
    \/ up.pc # "idle" /\ up.doc_id = tasks[i].doc_id
    \/ \E k \in DOMAIN resp : k > EntryOf(i) /\ resp[k].doc_id = tasks[i].doc_id

\* the document the work item was submitted for has been deleted
DocumentDeleted(i) == tasks[i].doc_id \notin DOMAIN docs \/ Superseded(i)

\* C30 as stated: when a document is deleted while its work item is queued
\* or running, no step of the work item creates a row or writes to a row,
\* neither under the document's id nor to another document's row.
C30_WorkerLeavesDeletedAlone ==
    [][\A i \in 1..MaxFiles :
          (WorkerStep(i) /\ DocumentDeleted(i)) => docs' = docs]_vars

\* C30, the part that holds: no step of a work item adds a row, and none
\* writes anything while no row has the id of its deleted document
C30_WorkerNeverRecreates ==
    [][\A i \in 1..MaxFiles :
          WorkerStep(i) =>
              /\ DOMAIN docs' = DOMAIN docs
              /\ tasks[i].doc_id \notin DOMAIN docs => docs' = docs]_vars

\* the state C30 denies: the work item of a deleted document has written the
\* row of the next upload, which got the same id
C30_DeletedWorkerWroteOther ==
    ~(\E i \in DOMAIN tasks :
         /\ tasks[i].pc = "done" /\ Superseded(i)
         /\ \E r \in DOMAIN reqs : reqs[r].pc = "done"
                                   /\ reqs[r].doc_id = tasks[i].doc_id
         /\ up.pc = "save" /\ up.doc_id = tasks[i].doc_id
         /\ docs[up.doc_id].status \in Terminal)

====
